---- MODULE Spec2Model ----
(***************************************************************************)
(* State-machine model of the CLMM pool engine of src/src/pool.py          *)
(* (class Pool).  Where the class defines a method twice, the later        *)
(* definition (lines 610-844) is the one Python binds and the one modelled.*)
(*                                                                         *)
(* Arithmetic scale.  The engine computes on unbounded Python integers in  *)
(* Q64.64 with tick base 1.0001.  TLC integers are 32 bit, so the model    *)
(* keeps every formula of the code but evaluates it at a reduced scale:    *)
(* the fixed-point unit Q64 is 16 instead of 2^64 and sqrt(Base) is 3/2    *)
(* instead of sqrt(1.0001).  All divisions floor exactly as in the code.   *)
(* No product of the model exceeds 2^31, so no width is lost.              *)
(***************************************************************************)
EXTENDS Integers, Sequences, FiniteSets, TLC

\* ---------------------------------------------------------------- scale
Q64 == 16
SqrtBaseNum == 3
SqrtBaseDen == 2
PpmDenominator == 1000000

\* --------------------------------------------------------------- bounds
MaxCalls == 3
MaxLiquidityCalls == 4
MaxFeeAmount == 12
MaxTick == 4
MaxValidatedCalls == 4
MaxFlashCalls == 4

PositionTicks == {-1, 0, 2}
LiquidityDeltas == {-4, 4}
PositionDeltas == {-8, -4, 4, 8}
SwapAmounts == {-1, 0, 3, 6}
EstimateAmounts == {3, 6}
EstimateTargets == {1, 3}
WalkInputs == {2, 5, 12}
FeeRates == {100}
FeeRateConfigs == {-100, 0, 100, 500000, 1000000, 2000000}
InitTicks == {1}
InitLiquidity == {0, 4}

\* ------------------------------------------------- fixed-point primitives
RECURSIVE Pow(_, _)
Pow(b, e) == IF e <= 0 THEN 1 ELSE b * Pow(b, e - 1)

Abs(x) == IF x < 0 THEN -x ELSE x

\* floor(sqrt(Base^tick) * Q64)
tickToSqrtPrice(tick) ==
  IF tick >= 0
    THEN (Q64 * Pow(SqrtBaseNum, tick)) \div Pow(SqrtBaseDen, tick)
    ELSE (Q64 * Pow(SqrtBaseDen, -tick)) \div Pow(SqrtBaseNum, -tick)

\* sqrt(Base)^t <= sqrt_price / Q64, compared without division
PowLeq(t, sqrt_price) ==
  IF t >= 0
    THEN Q64 * Pow(SqrtBaseNum, t) <= sqrt_price * Pow(SqrtBaseDen, t)
    ELSE Q64 * Pow(SqrtBaseDen, -t) <= sqrt_price * Pow(SqrtBaseNum, -t)

LogSearch == -8..8

\* floor(2 * log(sqrt_price / Q64) / log(Base)); 0 for sqrt_price <= 0
sqrtPriceToTick(sqrt_price) ==
  IF sqrt_price <= 0 THEN 0
  ELSE CHOOSE t \in LogSearch :
         /\ PowLeq(t, sqrt_price)
         /\ ~PowLeq(t + 1, sqrt_price)

submod(a, b) == IF a - b < 0 THEN 0 ELSE a - b

mulDivRoundingDown(a, b, denominator) ==
  IF denominator = 0 \/ a = 0 \/ b = 0 THEN 0 ELSE (a * b) \div denominator

\* ------------------------------------------------------------------ state
VARIABLES
  reserveA, reserveB,         \* token reserves (bookkeeping only)
  sqrtPriceX64,               \* current sqrt price, fixed point
  liquidity,                  \* active liquidity
  tickCurrent,
  feeRatePpm,
  ticks,                      \* dict: tick -> TickData
  tickBitmap,                 \* set of initialized ticks
  feeGrowthGlobal0X64, feeGrowthGlobal1X64,
  totalSwapFee0, totalSwapFee1,
  validationStats,
  lastCall,                   \* the last public call: name, arguments, result
  crossedAt,                  \* history: tick -> globals at its last crossing by a swap
  snapshotAt,                 \* history: tick -> per-token global at its last snapshot
  ledger,                     \* history: range -> liquidity added minus removed
  ledgerClean,                \* history: no range was ever removed below zero
  swapped,                    \* history: some swap has walked since construction
  baseLiquidity,              \* history: liquidity at construction
  calls                       \* history: number of public calls so far

poolVars == <<reserveA, reserveB, sqrtPriceX64, liquidity, tickCurrent, feeRatePpm,
              ticks, tickBitmap, feeGrowthGlobal0X64, feeGrowthGlobal1X64,
              totalSwapFee0, totalSwapFee1>>
histVars == <<crossedAt, snapshotAt, ledger, ledgerClean, swapped, baseLiquidity, calls>>
vars == <<poolVars, validationStats, lastCall, histVars>>

\* ------------------------------------------------------------- tick book
EmptyTick == [liquidityNet |-> 0, liquidityGross |-> 0,
              feeGrowthOutside0X64 |-> 0, feeGrowthOutside1X64 |-> 0]

RemoveKey(f, k) == [x \in (DOMAIN f) \ {k} |-> f[x]]

\* updateTickData that deletes the record of a drained tick but leaves the index alone
updateTickData_KeepIndex(book, tick, netDelta, grossDelta) ==
  LET tickData == IF tick \in DOMAIN book.ticks THEN book.ticks[tick] ELSE EmptyTick
      net == tickData.liquidityNet + netDelta
      gross == tickData.liquidityGross + grossDelta
  IN IF gross <= 0 /\ net = 0
       THEN [ticks |-> RemoveKey(book.ticks, tick), tickBitmap |-> book.tickBitmap]
       ELSE [ticks |-> (tick :> [tickData EXCEPT !.liquidityNet = net,
                                   !.liquidityGross = IF gross < 0 THEN 0 ELSE gross])
                        @@ book.ticks,
             tickBitmap |-> book.tickBitmap \cup {tick}]

\* book = [ticks, tickBitmap]; the result is the book after the call
updateTickData(book, tick, netDelta, grossDelta) ==
  LET tickData == IF tick \in DOMAIN book.ticks THEN book.ticks[tick] ELSE EmptyTick
      net == tickData.liquidityNet + netDelta
      gross == tickData.liquidityGross + grossDelta
  IN IF gross <= 0 /\ net = 0
       THEN [ticks |-> RemoveKey(book.ticks, tick),
             tickBitmap |-> book.tickBitmap \ {tick}]
       ELSE [ticks |-> (tick :> [tickData EXCEPT !.liquidityNet = net,
                                   !.liquidityGross = IF gross < 0 THEN 0 ELSE gross])
                        @@ book.ticks,
             tickBitmap |-> book.tickBitmap \cup {tick}]

\* applyLiquidityDelta that adjusts the active liquidity whatever the range
applyLiquidityDeltaResult_AnyRange(tickLower, tickUpper, liquidityDelta) ==
  IF liquidityDelta = 0
    THEN [ticks |-> ticks, tickBitmap |-> tickBitmap, liquidity |-> liquidity]
    ELSE
      LET deltaAbs == IF liquidityDelta >= 0 THEN liquidityDelta ELSE -liquidityDelta
          grossDelta == IF liquidityDelta >= 0 THEN deltaAbs ELSE -deltaAbs
          b1 == updateTickData([ticks |-> ticks, tickBitmap |-> tickBitmap],
                               tickLower, liquidityDelta, grossDelta)
          b2 == updateTickData(b1, tickUpper, -liquidityDelta, grossDelta)
          liq == IF liquidity + liquidityDelta < 0 THEN 0 ELSE liquidity + liquidityDelta
      IN [ticks |-> b2.ticks, tickBitmap |-> b2.tickBitmap, liquidity |-> liq]

\* applyLiquidityDelta that adds |liquidityDelta| to liquidityGross on removal too
applyLiquidityDeltaResult_AbsGross(tickLower, tickUpper, liquidityDelta) ==
  IF liquidityDelta = 0
    THEN [ticks |-> ticks, tickBitmap |-> tickBitmap, liquidity |-> liquidity]
    ELSE
      LET deltaAbs == IF liquidityDelta >= 0 THEN liquidityDelta ELSE -liquidityDelta
          b1 == updateTickData([ticks |-> ticks, tickBitmap |-> tickBitmap],
                               tickLower, liquidityDelta, deltaAbs)
          b2 == updateTickData(b1, tickUpper, -liquidityDelta, deltaAbs)
          liq == IF tickCurrent >= tickLower /\ tickCurrent < tickUpper
                   THEN (IF liquidity + liquidityDelta < 0 THEN 0
                         ELSE liquidity + liquidityDelta)
                   ELSE liquidity
      IN [ticks |-> b2.ticks, tickBitmap |-> b2.tickBitmap, liquidity |-> liq]

\* applyLiquidityDelta that does not clamp the active liquidity at 0
applyLiquidityDeltaResult_NoClamp(tickLower, tickUpper, liquidityDelta) ==
  IF liquidityDelta = 0
    THEN [ticks |-> ticks, tickBitmap |-> tickBitmap, liquidity |-> liquidity]
    ELSE
      LET deltaAbs == IF liquidityDelta >= 0 THEN liquidityDelta ELSE -liquidityDelta
          grossDelta == IF liquidityDelta >= 0 THEN deltaAbs ELSE -deltaAbs
          b1 == updateTickData([ticks |-> ticks, tickBitmap |-> tickBitmap],
                               tickLower, liquidityDelta, grossDelta)
          b2 == updateTickData(b1, tickUpper, -liquidityDelta, grossDelta)
          liq == IF tickCurrent >= tickLower /\ tickCurrent < tickUpper
                   THEN liquidity + liquidityDelta
                   ELSE liquidity
      IN [ticks |-> b2.ticks, tickBitmap |-> b2.tickBitmap, liquidity |-> liq]

\* the book and the active liquidity after applyLiquidityDelta
applyLiquidityDeltaResult(tickLower, tickUpper, liquidityDelta) ==
  IF liquidityDelta = 0
    THEN [ticks |-> ticks, tickBitmap |-> tickBitmap, liquidity |-> liquidity]
    ELSE
      LET deltaAbs == IF liquidityDelta >= 0 THEN liquidityDelta ELSE -liquidityDelta
          grossDelta == IF liquidityDelta >= 0 THEN deltaAbs ELSE -deltaAbs
          b1 == updateTickData([ticks |-> ticks, tickBitmap |-> tickBitmap],
                               tickLower, liquidityDelta, grossDelta)
          b2 == updateTickData(b1, tickUpper, -liquidityDelta, grossDelta)
          liq == IF tickCurrent >= tickLower /\ tickCurrent < tickUpper
                   THEN (IF liquidity + liquidityDelta < 0 THEN 0
                         ELSE liquidity + liquidityDelta)
                   ELSE liquidity
      IN [ticks |-> b2.ticks, tickBitmap |-> b2.tickBitmap, liquidity |-> liq]

\* ------------------------------------------------------------ fee engine
calculateFees(amountIn) ==
  LET zero == [totalFee |-> 0, lpFee |-> 0, protocolFee |-> 0]
      \* feeRate is feeRatePpm / 1e6 (line 32), so round(feeRate * 1e6) = feeRatePpm
      ppm == feeRatePpm
      rawFee == (amountIn * ppm + PpmDenominator - 1) \div PpmDenominator
      lpFee0 == (rawFee * 4 + 5 - 1) \div 5
      lpFee == IF lpFee0 < 1 THEN 1 ELSE lpFee0
      protocolFee == IF rawFee - lpFee < 0 THEN 0 ELSE rawFee - lpFee
  IN IF amountIn <= 0 THEN zero
     ELSE IF ppm <= 0 THEN zero
     ELSE IF rawFee <= 0 THEN zero
     ELSE [totalFee |-> lpFee + protocolFee, lpFee |-> lpFee, protocolFee |-> protocolFee]

\* updateFeeGrowth that takes the fee growth off the global instead of adding it
updateFeeGrowth_Subtract(g, liq, feeAmount, zeroForOne) ==
  IF liq > 0
    THEN LET feeGrowthDelta == (feeAmount * Q64) \div liq
         IN IF zeroForOne THEN <<g[1] - feeGrowthDelta, g[2]>>
                          ELSE <<g[1], g[2] - feeGrowthDelta>>
    ELSE g

\* the pair <<feeGrowthGlobal0X64, feeGrowthGlobal1X64>> after updateFeeGrowth
updateFeeGrowth(g, liq, feeAmount, zeroForOne) ==
  IF liq > 0
    THEN LET feeGrowthDelta == (feeAmount * Q64) \div liq
         IN IF zeroForOne THEN <<g[1] + feeGrowthDelta, g[2]>>
                          ELSE <<g[1], g[2] + feeGrowthDelta>>
    ELSE g

\* updateFeeGrowthOutside that snapshots the output token's side on a crossing
updateFeeGrowthOutside_OtherSide(tks, g, tick, zeroForOne) ==
  IF tick \notin DOMAIN tks THEN tks
  ELSE IF zeroForOne
    THEN [tks EXCEPT ![tick].feeGrowthOutside1X64 = g[2]]
    ELSE [tks EXCEPT ![tick].feeGrowthOutside0X64 = g[1]]

\* updateFeeGrowthOutside that snapshots both tokens on a crossing
updateFeeGrowthOutside_BothSides(tks, g, tick, zeroForOne) ==
  IF tick \notin DOMAIN tks THEN tks
  ELSE [tks EXCEPT ![tick].feeGrowthOutside0X64 = g[1],
                   ![tick].feeGrowthOutside1X64 = g[2]]

\* the tick dict after updateFeeGrowthOutside
updateFeeGrowthOutside(tks, g, tick, zeroForOne) ==
  IF tick \notin DOMAIN tks THEN tks
  ELSE IF zeroForOne
    THEN [tks EXCEPT ![tick].feeGrowthOutside0X64 = g[1]]
    ELSE [tks EXCEPT ![tick].feeGrowthOutside1X64 = g[2]]

\* updateTickFeeGrowthForFlashSwap that overwrites the token-0 slot only
updateTickFeeGrowthForFlashSwap_FirstSide(tks, g) ==
  [t \in DOMAIN tks |-> [tks[t] EXCEPT !.feeGrowthOutside0X64 = g[1]]]

\* the tick dict after updateTickFeeGrowthForFlashSwap
updateTickFeeGrowthForFlashSwap(tks, g) ==
  [t \in DOMAIN tks |-> [tks[t] EXCEPT !.feeGrowthOutside0X64 = g[1],
                                       !.feeGrowthOutside1X64 = g[2]]]

\* ----------------------------------------------------------- swap engine
\* getNextTick that takes the farthest initialized tick on the side instead of
\* the nearest
getNextTick_Farthest(bitmap, currentTick, zeroForOne) ==
  IF zeroForOne
    THEN LET lowerTicks == {t \in bitmap : t < currentTick}
         IN IF lowerTicks = {} THEN <<>>
            ELSE <<CHOOSE t \in lowerTicks : \A u \in lowerTicks : u >= t>>
    ELSE LET higherTicks == {t \in bitmap : t > currentTick}
         IN IF higherTicks = {} THEN <<>>
            ELSE <<CHOOSE t \in higherTicks : \A u \in higherTicks : u <= t>>

\* getNextTick that also accepts the current tick itself (<= and >= for < and >)
getNextTick_Inclusive(bitmap, currentTick, zeroForOne) ==
  IF zeroForOne
    THEN LET lowerTicks == {t \in bitmap : t <= currentTick}
         IN IF lowerTicks = {} THEN <<>>
            ELSE <<CHOOSE t \in lowerTicks : \A u \in lowerTicks : u <= t>>
    ELSE LET higherTicks == {t \in bitmap : t >= currentTick}
         IN IF higherTicks = {} THEN <<>>
            ELSE <<CHOOSE t \in higherTicks : \A u \in higherTicks : u >= t>>

\* <<>> stands for None, <<t>> for the tick found
getNextTick(bitmap, currentTick, zeroForOne) ==
  IF zeroForOne
    THEN LET lowerTicks == {t \in bitmap : t < currentTick}
         IN IF lowerTicks = {} THEN <<>>
            ELSE <<CHOOSE t \in lowerTicks : \A u \in lowerTicks : u <= t>>
    ELSE LET higherTicks == {t \in bitmap : t > currentTick}
         IN IF higherTicks = {} THEN <<>>
            ELSE <<CHOOSE t \in higherTicks : \A u \in higherTicks : u >= t>>

calculateMaxSwapAtPrice(liq, currentSqrtPriceX64, nextTick, zeroForOne) ==
  LET nextSqrtPriceX64 == tickToSqrtPrice(nextTick)
  IN IF zeroForOne
       THEN LET numerator == liq * (currentSqrtPriceX64 - nextSqrtPriceX64) * Q64
                denominator == currentSqrtPriceX64 * nextSqrtPriceX64
            IN IF denominator # 0 THEN numerator \div denominator ELSE 0
       ELSE (liq * (nextSqrtPriceX64 - currentSqrtPriceX64)) \div Q64

\* swapAtPrice with the formulas of the two directions exchanged
swapAtPrice_Inverted(liq, amountIn, sqrtPrice, zeroForOne) ==
  IF liq = 0 THEN [amountOut |-> 0, newSqrtPriceX64 |-> sqrtPrice]
  ELSE IF ~zeroForOne
    THEN LET numerator == liq * sqrtPrice * Q64
             denominator == liq * Q64 + amountIn * sqrtPrice
             newSqrtPriceX64 == IF denominator = 0 THEN sqrtPrice
                                ELSE numerator \div denominator
             delta == sqrtPrice - newSqrtPriceX64
         IN [amountOut |-> mulDivRoundingDown(liq, delta, Q64),
             newSqrtPriceX64 |-> newSqrtPriceX64]
    ELSE LET newSqrtPriceX64 == sqrtPrice + (amountIn * Q64) \div liq
             delta == newSqrtPriceX64 - sqrtPrice
             numerator == liq * delta * Q64
             denominator == newSqrtPriceX64 * sqrtPrice
         IN [amountOut |-> IF denominator = 0 THEN 0 ELSE numerator \div denominator,
             newSqrtPriceX64 |-> newSqrtPriceX64]

swapAtPrice(liq, amountIn, sqrtPrice, zeroForOne) ==
  IF liq = 0 THEN [amountOut |-> 0, newSqrtPriceX64 |-> sqrtPrice]
  ELSE IF zeroForOne
    THEN LET numerator == liq * sqrtPrice * Q64
             denominator == liq * Q64 + amountIn * sqrtPrice
             newSqrtPriceX64 == IF denominator = 0 THEN sqrtPrice
                                ELSE numerator \div denominator
             delta == sqrtPrice - newSqrtPriceX64
         IN [amountOut |-> mulDivRoundingDown(liq, delta, Q64),
             newSqrtPriceX64 |-> newSqrtPriceX64]
    ELSE LET newSqrtPriceX64 == sqrtPrice + (amountIn * Q64) \div liq
             delta == newSqrtPriceX64 - sqrtPrice
             numerator == liq * delta * Q64
             denominator == newSqrtPriceX64 * sqrtPrice
         IN [amountOut |-> IF denominator = 0 THEN 0 ELSE numerator \div denominator,
             newSqrtPriceX64 |-> newSqrtPriceX64]

\* One run of the while loop of executeCLMMSwap from walk state w =
\* [amountOut, sqrtPrice, tick, remaining, liquidity, ticks, crossed,
\* iterations]; liquidity and ticks are the fields of the pool the loop
\* assigns, crossed and iterations record the ticks crossed and the number of
\* times the loop body was entered.
RECURSIVE walkLoop(_, _, _, _)
walkLoop(w, bitmap, g, zeroForOne) ==
  IF w.remaining <= 0 THEN w
  ELSE
    LET nextTick == getNextTick(bitmap, w.tick, zeroForOne)
        within(amount) ==
          LET swapResult == swapAtPrice(w.liquidity, amount, w.sqrtPrice, zeroForOne)
          IN [w EXCEPT !.amountOut = w.amountOut + swapResult.amountOut,
                       !.sqrtPrice = swapResult.newSqrtPriceX64,
                       !.tick = sqrtPriceToTick(swapResult.newSqrtPriceX64),
                       !.remaining = 0,
                       !.iterations = w.iterations + 1]
    IN IF nextTick = <<>> THEN within(w.remaining)
       ELSE
         LET maxAmountAtCurrentPrice ==
               calculateMaxSwapAtPrice(w.liquidity, w.sqrtPrice, nextTick[1], zeroForOne)
         IN IF maxAmountAtCurrentPrice <= 0
              THEN [w EXCEPT !.iterations = w.iterations + 1]
            ELSE IF w.remaining <= maxAmountAtCurrentPrice THEN within(w.remaining)
            ELSE
              LET swapResult == swapAtPrice(w.liquidity, maxAmountAtCurrentPrice,
                                            w.sqrtPrice, zeroForOne)
                  tks == updateFeeGrowthOutside(w.ticks, g, nextTick[1], zeroForOne)
                  liq0 == IF nextTick[1] \in DOMAIN tks
                            THEN (IF zeroForOne
                                    THEN w.liquidity - tks[nextTick[1]].liquidityNet
                                    ELSE w.liquidity + tks[nextTick[1]].liquidityNet)
                            ELSE w.liquidity
              IN walkLoop([amountOut |-> w.amountOut + swapResult.amountOut,
                           sqrtPrice |-> tickToSqrtPrice(nextTick[1]),
                           tick |-> nextTick[1],
                           remaining |-> w.remaining - maxAmountAtCurrentPrice,
                           liquidity |-> IF liq0 < 0 THEN 0 ELSE liq0,
                           ticks |-> tks,
                           crossed |-> w.crossed \cup {nextTick[1]},
                           iterations |-> w.iterations + 1],
                          bitmap, g, zeroForOne)

\* executeCLMMSwap on a pool whose liquidity is liq and fee growth is g
executeCLMMSwap(liq, g, amountIn, zeroForOne) ==
  walkLoop([amountOut |-> 0, sqrtPrice |-> sqrtPriceX64, tick |-> tickCurrent,
            remaining |-> amountIn, liquidity |-> liq, ticks |-> ticks,
            crossed |-> {}, iterations |-> 0],
           tickBitmap, g, zeroForOne)

\* chargeFees that distributes totalFee, the protocol's share included
chargeFees_TotalFee(fees, zeroForOne) ==
  LET g == <<feeGrowthGlobal0X64, feeGrowthGlobal1X64>>
      totalFee == fees.totalFee
      lpFee == fees.lpFee
  IN [totalSwapFee0 |-> IF totalFee > 0 /\ zeroForOne THEN totalSwapFee0 + totalFee
                        ELSE totalSwapFee0,
      totalSwapFee1 |-> IF totalFee > 0 /\ ~zeroForOne THEN totalSwapFee1 + totalFee
                        ELSE totalSwapFee1,
      g |-> IF lpFee > 0 THEN updateFeeGrowth(g, liquidity, totalFee, zeroForOne) ELSE g]

\* chargeFees that books totalFee on the output token's total
chargeFees_WrongSide(fees, zeroForOne) ==
  LET g == <<feeGrowthGlobal0X64, feeGrowthGlobal1X64>>
      totalFee == fees.totalFee
      lpFee == fees.lpFee
  IN [totalSwapFee0 |-> IF totalFee > 0 /\ ~zeroForOne THEN totalSwapFee0 + totalFee
                        ELSE totalSwapFee0,
      totalSwapFee1 |-> IF totalFee > 0 /\ zeroForOne THEN totalSwapFee1 + totalFee
                        ELSE totalSwapFee1,
      g |-> IF lpFee > 0 THEN updateFeeGrowth(g, liquidity, lpFee, zeroForOne) ELSE g]

\* chargeFees that distributes lpFee without testing lpFee > 0
chargeFees_NoGuard(fees, zeroForOne) ==
  LET g == <<feeGrowthGlobal0X64, feeGrowthGlobal1X64>>
      totalFee == fees.totalFee
      lpFee == fees.lpFee
  IN [totalSwapFee0 |-> IF totalFee > 0 /\ zeroForOne THEN totalSwapFee0 + totalFee
                        ELSE totalSwapFee0,
      totalSwapFee1 |-> IF totalFee > 0 /\ ~zeroForOne THEN totalSwapFee1 + totalFee
                        ELSE totalSwapFee1,
      g |-> updateFeeGrowth(g, liquidity, lpFee, zeroForOne)]

\* Fee accounting of applySwapInternal: the totals and the fee growth after
\* totalFee is accumulated and lpFee distributed
chargeFees(fees, zeroForOne) ==
  LET g == <<feeGrowthGlobal0X64, feeGrowthGlobal1X64>>
      totalFee == fees.totalFee
      lpFee == fees.lpFee
  IN [totalSwapFee0 |-> IF totalFee > 0 /\ zeroForOne THEN totalSwapFee0 + totalFee
                        ELSE totalSwapFee0,
      totalSwapFee1 |-> IF totalFee > 0 /\ ~zeroForOne THEN totalSwapFee1 + totalFee
                        ELSE totalSwapFee1,
      g |-> IF lpFee > 0 THEN updateFeeGrowth(g, liquidity, lpFee, zeroForOne) ELSE g]

\* the pool fields and the result when applySwapInternal returns without walking
NoSwap == [amountOut |-> 0, sqrtPriceX64 |-> sqrtPriceX64, tickCurrent |-> tickCurrent,
           liquidity |-> liquidity, ticks |-> ticks,
           g |-> <<feeGrowthGlobal0X64, feeGrowthGlobal1X64>>,
           totalSwapFee0 |-> totalSwapFee0, totalSwapFee1 |-> totalSwapFee1,
           crossed |-> {}, walked |-> FALSE]

\* applySwapInternal past its amountIn <= 0 guard
swapCharged(amountIn, zeroForOne, fees) ==
  LET c == chargeFees(fees, zeroForOne)
      amountInAfterFee == IF amountIn > fees.totalFee THEN amountIn - fees.totalFee ELSE 0
      result == executeCLMMSwap(liquidity, c.g, amountInAfterFee, zeroForOne)
  IN IF amountInAfterFee = 0
       THEN [NoSwap EXCEPT !.g = c.g, !.totalSwapFee0 = c.totalSwapFee0,
                           !.totalSwapFee1 = c.totalSwapFee1]
       ELSE [amountOut |-> result.amountOut, sqrtPriceX64 |-> result.sqrtPrice,
             tickCurrent |-> result.tick, liquidity |-> result.liquidity,
             ticks |-> result.ticks, g |-> c.g,
             totalSwapFee0 |-> c.totalSwapFee0, totalSwapFee1 |-> c.totalSwapFee1,
             crossed |-> result.crossed, walked |-> TRUE]

\* applySwapInternal that swaps the magnitude of amountIn instead of rejecting
\* amountIn <= 0
applySwapInternal_Magnitude(amountIn, zeroForOne, fees) ==
  swapCharged(Abs(amountIn), zeroForOne, fees)

\* The pool after applySwapInternal(amountIn, zeroForOne, fees), and its result
applySwapInternal(amountIn, zeroForOne, fees) ==
  IF amountIn <= 0 THEN NoSwap ELSE swapCharged(amountIn, zeroForOne, fees)

\* ---------------------------------------------------------------- history
Ranges == {r \in PositionTicks \X PositionTicks : r[1] < r[2]}

\* history of the ticks of the dict tks after a call that left the dict with
\* the keys of tks: kept for surviving ticks, fresh for created ones
KeepHistory(h, tks, fresh) == [t \in DOMAIN tks |-> IF t \in DOMAIN h THEN h[t] ELSE fresh]

\* history after a tick walk that crossed the ticks of the set crossed
CrossHistory(h, crossed, g) == [t \in DOMAIN h |-> IF t \in crossed THEN <<g>> ELSE h[t]]

SnapshotHistory(h, crossed, g, zeroForOne) ==
  [t \in DOMAIN h |-> IF t \notin crossed THEN h[t]
                      ELSE IF zeroForOne THEN <<g[1], h[t][2]>> ELSE <<h[t][1], g[2]>>]

\* ------------------------------------------------------------------- Init
NoStats == [totalSwaps |-> 0, amountOutMismatches |-> 0, feeMismatches |-> 0,
            protocolFeeMismatches |-> 0, totalAmountOutDifference |-> 0,
            totalFeeDifference |-> 0, totalProtocolFeeDifference |-> 0,
            exactMatches |-> 0]

\* Pool(feeRatePpm) as constructed, then price, tick and liquidity set by the
\* host as the test fixture does (tests/pool_test.py setUp)
InitPool(rates, tickSet, liqSet) ==
  /\ feeRatePpm \in rates
  /\ \/ /\ tickCurrent \in tickSet
        /\ sqrtPriceX64 = tickToSqrtPrice(tickCurrent)
        /\ liquidity \in liqSet
     \/ /\ tickCurrent = 0 /\ sqrtPriceX64 = 0 /\ liquidity = 0   \* as constructed
  /\ reserveA = 0 /\ reserveB = 0
  /\ ticks = <<>> /\ tickBitmap = {}
  /\ feeGrowthGlobal0X64 = 0 /\ feeGrowthGlobal1X64 = 0
  /\ totalSwapFee0 = 0 /\ totalSwapFee1 = 0
  /\ validationStats = NoStats
  /\ lastCall = [op |-> "Pool", args |-> <<>>, ret |-> 0]
  /\ crossedAt = <<>> /\ snapshotAt = <<>>
  /\ ledger = [r \in Ranges |-> 0]
  /\ ledgerClean = TRUE
  /\ swapped = FALSE
  /\ baseLiquidity = liquidity
  /\ calls = 0

Init == InitPool(FeeRates, InitTicks, InitLiquidity)

\* ---------------------------------------------------------------- actions
\* every public call counts; a specification follows call sequences of length <= max
Call(max) == calls < max /\ calls' = calls + 1

ApplyLiquidityDelta(tickLower, tickUpper, liquidityDelta) ==
  LET r == applyLiquidityDeltaResult(tickLower, tickUpper, liquidityDelta)
      sum == ledger[<<tickLower, tickUpper>>] + liquidityDelta
  IN /\ ticks' = r.ticks
     /\ tickBitmap' = r.tickBitmap
     /\ liquidity' = r.liquidity
     /\ lastCall' = [op |-> "applyLiquidityDelta",
                     args |-> <<tickLower, tickUpper, liquidityDelta>>, ret |-> 0]
     /\ crossedAt' = KeepHistory(crossedAt, r.ticks, <<>>)
     /\ snapshotAt' = KeepHistory(snapshotAt, r.ticks, <<0, 0>>)
     /\ ledger' = [ledger EXCEPT ![<<tickLower, tickUpper>>] = sum]
     /\ ledgerClean' = (ledgerClean /\ sum >= 0)
     /\ UNCHANGED <<reserveA, reserveB, sqrtPriceX64, tickCurrent, feeRatePpm,
                    feeGrowthGlobal0X64, feeGrowthGlobal1X64,
                    totalSwapFee0, totalSwapFee1, validationStats,
                    swapped, baseLiquidity>>

\* assigns the pool fields applySwapInternal leaves in r
SwapEffect(r, zeroForOne) ==
  /\ sqrtPriceX64' = r.sqrtPriceX64
  /\ tickCurrent' = r.tickCurrent
  /\ liquidity' = r.liquidity
  /\ ticks' = r.ticks
  /\ feeGrowthGlobal0X64' = r.g[1]
  /\ feeGrowthGlobal1X64' = r.g[2]
  /\ totalSwapFee0' = r.totalSwapFee0
  /\ totalSwapFee1' = r.totalSwapFee1
  /\ crossedAt' = CrossHistory(crossedAt, r.crossed, r.g)
  /\ snapshotAt' = SnapshotHistory(snapshotAt, r.crossed, r.g, zeroForOne)
  /\ swapped' = (swapped \/ r.walked)
  /\ UNCHANGED <<reserveA, reserveB, feeRatePpm, tickBitmap,
                 ledger, ledgerClean, baseLiquidity>>

ApplySwap(amountIn, zeroForOne) ==
  LET fees == calculateFees(amountIn)
      r == applySwapInternal(amountIn, zeroForOne, fees)
  IN /\ SwapEffect(r, zeroForOne)
     /\ lastCall' = [op |-> "applySwap", args |-> <<amountIn, zeroForOne>>,
                     ret |-> r.amountOut]
     /\ UNCHANGED validationStats

\* estimateAmountOut that walks the gross amountIn, fees not deducted
estimateAmountOut_Gross(amountIn, zeroForOne) ==
  LET fees == calculateFees(amountIn)
      g == <<feeGrowthGlobal0X64, feeGrowthGlobal1X64>>
      result == IF amountIn > 0
                  THEN executeCLMMSwap(liquidity, g, amountIn, zeroForOne)
                  ELSE [amountOut |-> 0, sqrtPrice |-> sqrtPriceX64, tick |-> tickCurrent,
                        liquidity |-> liquidity, ticks |-> ticks, crossed |-> {}]
  IN [amountOut |-> result.amountOut, feeAmount |-> fees.lpFee, walk |-> result]

\* what estimateAmountOut returns (amountOut, feeAmount) and the walk it ran
estimateAmountOut(amountIn, zeroForOne) ==
  LET fees == calculateFees(amountIn)
      g == <<feeGrowthGlobal0X64, feeGrowthGlobal1X64>>
      amountInAfterFee == IF amountIn > fees.totalFee THEN amountIn - fees.totalFee ELSE 0
      result == IF amountInAfterFee > 0
                  THEN executeCLMMSwap(liquidity, g, amountInAfterFee, zeroForOne)
                  ELSE [amountOut |-> 0, sqrtPrice |-> sqrtPriceX64, tick |-> tickCurrent,
                        liquidity |-> liquidity, ticks |-> ticks, crossed |-> {}]
  IN [amountOut |-> result.amountOut, feeAmount |-> fees.lpFee, walk |-> result]

EstimateAmountOut(amountIn, zeroForOne) ==
  LET g == <<feeGrowthGlobal0X64, feeGrowthGlobal1X64>>
      result == estimateAmountOut(amountIn, zeroForOne).walk
  IN \* executeCLMMSwap assigns self.liquidity and the crossed ticks' records
     /\ liquidity' = result.liquidity
     /\ ticks' = result.ticks
     /\ snapshotAt' = SnapshotHistory(snapshotAt, result.crossed, g, zeroForOne)
     /\ lastCall' = [op |-> "estimateAmountOut", args |-> <<amountIn, zeroForOne>>,
                     ret |-> result.amountOut]
     /\ UNCHANGED <<reserveA, reserveB, sqrtPriceX64, tickCurrent, feeRatePpm, tickBitmap,
                    feeGrowthGlobal0X64, feeGrowthGlobal1X64, totalSwapFee0, totalSwapFee1,
                    validationStats, crossedAt, ledger, ledgerClean, swapped,
                    baseLiquidity>>

\* an optional argument: <<>> is None, <<v>> is the value v
Given(opt) == opt # <<>>

\* validatedFees that keeps the computed fees whatever is supplied
validatedFees_Computed(amountIn, expectedFee, expectedProtocolFee) ==
  calculateFees(amountIn)

\* the fee record applySwapWithValidation hands to applySwapInternal
validatedFees(amountIn, expectedFee, expectedProtocolFee) ==
  LET computedFees == calculateFees(amountIn)
      lpFee == IF Given(expectedFee) THEN expectedFee[1] ELSE computedFees.lpFee
      protocolFee == IF Given(expectedProtocolFee) THEN expectedProtocolFee[1]
                     ELSE computedFees.protocolFee
      totalFee == lpFee + protocolFee
  IN [totalFee |-> totalFee, lpFee |-> lpFee, protocolFee |-> protocolFee]

\* applySwapWithValidation that compares the supplied fees with the computed ones
ApplySwapWithValidation_CheckComputed(amountIn, zeroForOne, expectedAmountOut, expectedFee, expectedProtocolFee) ==
  LET fees == validatedFees(amountIn, expectedFee, expectedProtocolFee)
      computed == calculateFees(amountIn)
      lpFee == fees.lpFee
      protocolFee == fees.protocolFee
      r == applySwapInternal(amountIn, zeroForOne, fees)
      amountOut == r.amountOut
      amountOutMatch == IF Given(expectedAmountOut) THEN amountOut = expectedAmountOut[1]
                        ELSE TRUE
      feeMatch == IF Given(expectedFee) THEN computed.lpFee = expectedFee[1] ELSE TRUE
      protocolFeeMatch == IF Given(expectedProtocolFee)
                            THEN computed.protocolFee = expectedProtocolFee[1] ELSE TRUE
      amountOutDifference == IF Given(expectedAmountOut)
                               THEN amountOut - expectedAmountOut[1] ELSE 0
      feeDifference == IF Given(expectedFee) THEN computed.lpFee - expectedFee[1] ELSE 0
      protocolFeeDifference == IF Given(expectedProtocolFee)
                                 THEN computed.protocolFee - expectedProtocolFee[1] ELSE 0
      isExactMatch == amountOutMatch /\ feeMatch /\ protocolFeeMatch
      Inc(c, cond, by) == IF cond THEN c + by ELSE c
      v == validationStats
  IN /\ SwapEffect(r, zeroForOne)
     /\ validationStats' =
          [totalSwaps |-> v.totalSwaps + 1,
           amountOutMismatches |-> Inc(v.amountOutMismatches, ~amountOutMatch, 1),
           totalAmountOutDifference |->
             Inc(v.totalAmountOutDifference, ~amountOutMatch, amountOutDifference),
           feeMismatches |-> Inc(v.feeMismatches, ~feeMatch, 1),
           totalFeeDifference |-> Inc(v.totalFeeDifference, ~feeMatch, feeDifference),
           protocolFeeMismatches |-> Inc(v.protocolFeeMismatches, ~protocolFeeMatch, 1),
           totalProtocolFeeDifference |->
             Inc(v.totalProtocolFeeDifference, ~protocolFeeMatch, protocolFeeDifference),
           exactMatches |-> Inc(v.exactMatches, isExactMatch, 1)]
     /\ lastCall' = [op |-> "applySwapWithValidation",
                     args |-> <<amountIn, zeroForOne, expectedAmountOut, expectedFee,
                                expectedProtocolFee>>,
                     ret |-> amountOut]

ApplySwapWithValidation(amountIn, zeroForOne, expectedAmountOut, expectedFee, expectedProtocolFee) ==
  LET fees == validatedFees(amountIn, expectedFee, expectedProtocolFee)
      lpFee == fees.lpFee
      protocolFee == fees.protocolFee
      r == applySwapInternal(amountIn, zeroForOne, fees)
      amountOut == r.amountOut
      amountOutMatch == IF Given(expectedAmountOut) THEN amountOut = expectedAmountOut[1]
                        ELSE TRUE
      feeMatch == IF Given(expectedFee) THEN lpFee = expectedFee[1] ELSE TRUE
      protocolFeeMatch == IF Given(expectedProtocolFee)
                            THEN protocolFee = expectedProtocolFee[1] ELSE TRUE
      amountOutDifference == IF Given(expectedAmountOut)
                               THEN amountOut - expectedAmountOut[1] ELSE 0
      feeDifference == IF Given(expectedFee) THEN lpFee - expectedFee[1] ELSE 0
      protocolFeeDifference == IF Given(expectedProtocolFee)
                                 THEN protocolFee - expectedProtocolFee[1] ELSE 0
      isExactMatch == amountOutMatch /\ feeMatch /\ protocolFeeMatch
      Inc(c, cond, by) == IF cond THEN c + by ELSE c
      v == validationStats
  IN /\ SwapEffect(r, zeroForOne)
     /\ validationStats' =
          [totalSwaps |-> v.totalSwaps + 1,
           amountOutMismatches |-> Inc(v.amountOutMismatches, ~amountOutMatch, 1),
           totalAmountOutDifference |->
             Inc(v.totalAmountOutDifference, ~amountOutMatch, amountOutDifference),
           feeMismatches |-> Inc(v.feeMismatches, ~feeMatch, 1),
           totalFeeDifference |-> Inc(v.totalFeeDifference, ~feeMatch, feeDifference),
           protocolFeeMismatches |-> Inc(v.protocolFeeMismatches, ~protocolFeeMatch, 1),
           totalProtocolFeeDifference |->
             Inc(v.totalProtocolFeeDifference, ~protocolFeeMatch, protocolFeeDifference),
           exactMatches |-> Inc(v.exactMatches, isExactMatch, 1)]
     /\ lastCall' = [op |-> "applySwapWithValidation",
                     args |-> <<amountIn, zeroForOne, expectedAmountOut, expectedFee,
                                expectedProtocolFee>>,
                     ret |-> amountOut]

\* applyRepayFlashSwap that leaves the ticks' outside growth alone
ApplyRepayFlashSwap_NoSnapshot(amountXDebt, amountYDebt, paidX, paidY, reserveX, reserveY) ==
  LET feeX == IF paidX > amountXDebt THEN paidX - amountXDebt ELSE 0
      feeY == IF paidY > amountYDebt THEN paidY - amountYDebt ELSE 0
      g0 == <<feeGrowthGlobal0X64, feeGrowthGlobal1X64>>
      g1 == IF feeX > 0 THEN updateFeeGrowth(g0, liquidity, feeX, TRUE) ELSE g0
      g2 == IF feeY > 0 THEN updateFeeGrowth(g1, liquidity, feeY, FALSE) ELSE g1
  IN /\ feeGrowthGlobal0X64' = g2[1]
     /\ feeGrowthGlobal1X64' = g2[2]
     /\ totalSwapFee0' = IF feeX > 0 THEN totalSwapFee0 + feeX ELSE totalSwapFee0
     /\ totalSwapFee1' = IF feeY > 0 THEN totalSwapFee1 + feeY ELSE totalSwapFee1
     /\ reserveA' = IF Given(reserveX) THEN reserveX[1] ELSE reserveA
     /\ reserveB' = IF Given(reserveY) THEN reserveY[1] ELSE reserveB
     /\ UNCHANGED <<ticks, snapshotAt>>
     /\ lastCall' = [op |-> "applyRepayFlashSwap",
                     args |-> <<amountXDebt, amountYDebt, paidX, paidY, reserveX, reserveY>>,
                     ret |-> 0]
     /\ UNCHANGED <<sqrtPriceX64, liquidity, tickCurrent, feeRatePpm, tickBitmap,
                    validationStats, crossedAt, ledger, ledgerClean, swapped,
                    baseLiquidity>>

ApplyRepayFlashSwap(amountXDebt, amountYDebt, paidX, paidY, reserveX, reserveY) ==
  LET feeX == IF paidX > amountXDebt THEN paidX - amountXDebt ELSE 0
      feeY == IF paidY > amountYDebt THEN paidY - amountYDebt ELSE 0
      g0 == <<feeGrowthGlobal0X64, feeGrowthGlobal1X64>>
      g1 == IF feeX > 0 THEN updateFeeGrowth(g0, liquidity, feeX, TRUE) ELSE g0
      g2 == IF feeY > 0 THEN updateFeeGrowth(g1, liquidity, feeY, FALSE) ELSE g1
  IN /\ feeGrowthGlobal0X64' = g2[1]
     /\ feeGrowthGlobal1X64' = g2[2]
     /\ totalSwapFee0' = IF feeX > 0 THEN totalSwapFee0 + feeX ELSE totalSwapFee0
     /\ totalSwapFee1' = IF feeY > 0 THEN totalSwapFee1 + feeY ELSE totalSwapFee1
     /\ reserveA' = IF Given(reserveX) THEN reserveX[1] ELSE reserveA
     /\ reserveB' = IF Given(reserveY) THEN reserveY[1] ELSE reserveB
     /\ ticks' = updateTickFeeGrowthForFlashSwap(ticks, g2)
     /\ snapshotAt' = [t \in DOMAIN snapshotAt |-> g2]
     /\ lastCall' = [op |-> "applyRepayFlashSwap",
                     args |-> <<amountXDebt, amountYDebt, paidX, paidY, reserveX, reserveY>>,
                     ret |-> 0]
     /\ UNCHANGED <<sqrtPriceX64, liquidity, tickCurrent, feeRatePpm, tickBitmap,
                    validationStats, crossedAt, ledger, ledgerClean, swapped,
                    baseLiquidity>>

\* argument tuples of the validated swap: none, some and all expected values
\* supplied, with zero and negative expected fees
ValidationArgs ==
  { <<3, TRUE, <<>>, <<>>, <<>>>>,
    <<6, FALSE, <<1>>, <<2>>, <<1>>>>,
    <<3, TRUE, <<0>>, <<-1>>, <<>>>>,
    <<6, FALSE, <<>>, <<0>>, <<-1>>>>,
    <<0, TRUE, <<>>, <<2>>, <<1>>>> }

\* argument tuples of the flash repay: overpaid, exactly paid and underpaid
FlashArgs ==
  { <<1, 1, 3, 1, <<>>, <<>>>>,
    <<1, 1, 0, 2, <<5>>, <<>>>>,
    <<2, 2, 2, 1, <<>>, <<7>>>> }

Next ==
  \/ \E r \in Ranges, d \in LiquidityDeltas :
       Call(MaxCalls) /\ ApplyLiquidityDelta(r[1], r[2], d)
  \/ \E a \in SwapAmounts, z \in BOOLEAN : Call(MaxCalls) /\ ApplySwap(a, z)
  \/ \E v \in ValidationArgs :
       Call(MaxCalls) /\ ApplySwapWithValidation(v[1], v[2], v[3], v[4], v[5])
  \/ \E f \in FlashArgs :
       Call(MaxCalls) /\ ApplyRepayFlashSwap(f[1], f[2], f[3], f[4], f[5], f[6])
  \/ \E a \in EstimateAmounts, z \in BOOLEAN : Call(MaxCalls) /\ EstimateAmountOut(a, z)

Spec == Init /\ [][Next]_vars

\* ================================================================= claims
FeeGrowthOutside(tks) ==
  [t \in DOMAIN tks |-> <<tks[t].feeGrowthOutside0X64, tks[t].feeGrowthOutside1X64>>]

\* C1: a call of estimateAmountOut, whatever amountIn and direction and whether
\* or not the simulated swap crosses initialized ticks, leaves sqrtPriceX64,
\* tickCurrent, liquidity, both global fee growths and every tick's
\* feeGrowthOutside exactly as they were.
C1_EstimateAmountOutIsPure ==
  [][lastCall'.op = "estimateAmountOut" =>
       /\ UNCHANGED <<sqrtPriceX64, tickCurrent, liquidity,
                      feeGrowthGlobal0X64, feeGrowthGlobal1X64>>
       /\ FeeGrowthOutside(ticks') = FeeGrowthOutside(ticks)]_vars

\* C2: in every reachable state the keys of ticks are exactly the members of
\* tickBitmap.
C2_TicksMatchBitmap == DOMAIN ticks = tickBitmap

\* a removal has deleted its lower tick while other ticks stay initialized
C2_Witness ==
  /\ lastCall.op = "applyLiquidityDelta"
  /\ lastCall.args[3] < 0
  /\ lastCall.args[1] \notin tickBitmap
  /\ tickBitmap # {}

\* ---------------------------------------------- positions and swaps only
\* an empty pool: liquidity 0 and no ticks
InitEmpty == InitPool(FeeRates, InitTicks, {0})

NextPositions ==
  \/ \E r \in Ranges, d \in LiquidityDeltas :
       Call(MaxCalls) /\ ApplyLiquidityDelta(r[1], r[2], d)
  \/ \E a \in SwapAmounts, z \in BOOLEAN : Call(MaxCalls) /\ ApplySwap(a, z)

SpecPositions == InitEmpty /\ [][NextPositions]_vars

RECURSIVE SumNet(_, _)
SumNet(tks, S) ==
  IF S = {} THEN 0
  ELSE LET t == CHOOSE x \in S : TRUE
       IN tks[t].liquidityNet + SumNet(tks, S \ {t})

\* C3: from an empty pool, after liquidity deltas that add positions or remove
\* previously added ones, interleaved with swaps in either direction, the
\* active liquidity is the sum of liquidityNet over the initialized ticks at
\* or below tickCurrent.
C3_LiquidityIsNetSum ==
  ledgerClean => liquidity = SumNet(ticks, {t \in DOMAIN ticks : t <= tickCurrent})

\* ------------------------------------------------- liquidity deltas only
NextLiquidity ==
  \E r \in Ranges, d \in PositionDeltas :
    Call(MaxLiquidityCalls) /\ ApplyLiquidityDelta(r[1], r[2], d)

SpecLiquidity == Init /\ [][NextLiquidity]_vars

NetZero == \A r \in Ranges : ledger[r] = 0

Restored == liquidity = baseLiquidity /\ ticks = <<>> /\ tickBitmap = {}

\* C4: from a pool with no tick entries, after liquidity deltas (no swap in
\* between) that sum to zero on every range, in any order of additions and
\* removals, liquidity is back at its starting value and ticks and tickBitmap
\* are empty.
C4_ZeroNetRestores == NetZero => Restored

\* C4 as amended: the same, for a starting liquidity >= 0 and sequences in
\* which no removal takes a range below what was added to it before.
C4_ZeroNetRestoresWhenCovered == (ledgerClean /\ NetZero) => Restored

\* two additions to a range followed by one removal of their sum
C4_Witness ==
  /\ calls = 3
  /\ ledgerClean /\ NetZero
  /\ lastCall.op = "applyLiquidityDelta"
  /\ lastCall.args[3] = -8

\* the call a step makes, read off the state it leads to
IsSwap(call) == call.op = "applySwap"
SwapAmountIn(call) == call.args[1]
SwapZeroForOne(call) == call.args[2]

\* the initialized ticks on the side a swap in the given direction walks to
TicksOnSide(zeroForOne) ==
  IF zeroForOne THEN {t \in tickBitmap : t < tickCurrent}
  ELSE {t \in tickBitmap : t > tickCurrent}

\* totalFee is booked on the input token's total and the other total is kept
FeeBooked(zeroForOne, totalFee) ==
  /\ totalSwapFee0' = totalSwapFee0 + (IF zeroForOne THEN totalFee ELSE 0)
  /\ totalSwapFee1' = totalSwapFee1 + (IF zeroForOne THEN 0 ELSE totalFee)

NetInput(amountIn) ==
  LET totalFee == calculateFees(amountIn).totalFee
  IN IF amountIn > totalFee THEN amountIn - totalFee ELSE 0

\* C5: applySwap with amountIn > 0 while the active liquidity is 0 returns 0
\* and changes no pool state: price, tick, liquidity, global fee growth,
\* totalSwapFee0/1 and all tick data are as before.
C5_ZeroLiquiditySwapIsNoOp ==
  [][(IsSwap(lastCall') /\ SwapAmountIn(lastCall') > 0 /\ liquidity = 0) =>
       /\ lastCall'.ret = 0
       /\ UNCHANGED <<sqrtPriceX64, tickCurrent, liquidity, feeGrowthGlobal0X64,
                      feeGrowthGlobal1X64, totalSwapFee0, totalSwapFee1, ticks>>]_vars

\* C5 as amended: such a call returns 0 and leaves price, liquidity, global
\* fee growth and all tick data unchanged, but books the totalFee of
\* calculateFees(amountIn) on the input token's totalSwapFee, and, when the
\* net input is positive and no initialized tick lies on the required side,
\* sets tickCurrent to sqrtPriceToTick(sqrtPriceX64).
C5_ZeroLiquiditySwapBooksFeeOnly ==
  [][(IsSwap(lastCall') /\ SwapAmountIn(lastCall') > 0 /\ liquidity = 0) =>
       LET amountIn == SwapAmountIn(lastCall')
           zeroForOne == SwapZeroForOne(lastCall')
           recomputed == NetInput(amountIn) > 0 /\ TicksOnSide(zeroForOne) = {}
       IN /\ lastCall'.ret = 0
          /\ UNCHANGED <<sqrtPriceX64, liquidity, feeGrowthGlobal0X64,
                         feeGrowthGlobal1X64, ticks, tickBitmap>>
          /\ FeeBooked(zeroForOne, calculateFees(amountIn).totalFee)
          /\ tickCurrent' = IF recomputed THEN sqrtPriceToTick(sqrtPriceX64)
                            ELSE tickCurrent]_vars

\* the first call is a swap of a positive amount on a pool of liquidity 0
C5_Witness ==
  /\ calls = 1 /\ baseLiquidity = 0
  /\ IsSwap(lastCall) /\ SwapAmountIn(lastCall) > 0
  /\ lastCall.ret = 0
  /\ totalSwapFee0 + totalSwapFee1 > 0

C7_NonPositiveSwapIsNoOp ==
  [][(IsSwap(lastCall') /\ SwapAmountIn(lastCall') <= 0) =>
       (lastCall'.ret = 0 /\ UNCHANGED poolVars)]_vars

\* a swap of a negative amount was called on a pool with liquidity and ticks
C7_Witness ==
  /\ IsSwap(lastCall) /\ SwapAmountIn(lastCall) < 0
  /\ liquidity > 0 /\ tickBitmap # {}

\* C8: across swaps, validated swaps with arbitrary supplied fees, flash
\* repays and liquidity deltas, neither global fee growth ever decreases from
\* one state to the next.
C8_FeeGrowthMonotone ==
  [][/\ feeGrowthGlobal0X64' >= feeGrowthGlobal0X64
     /\ feeGrowthGlobal1X64' >= feeGrowthGlobal1X64]_vars

\* a validated swap with a negative supplied lpFee walked a pool whose fee
\* growth of the input token was already positive
C8_Witness ==
  /\ lastCall.op = "applySwapWithValidation"
  /\ lastCall.args[4] = <<-1>>
  /\ lastCall.ret > 0
  /\ feeGrowthGlobal0X64 > 0

\* C9: for every initialized tick crossed by at least one swap and each token
\* I, the tick's feeGrowthOutsideIX64 equals the value feeGrowthGlobalIX64
\* had when the tick was last crossed.
C9_OutsideIsGlobalAtLastCrossing ==
  \A t \in DOMAIN ticks :
    crossedAt[t] # <<>> => FeeGrowthOutside(ticks)[t] = crossedAt[t][1]

\* C9 as amended: for every initialized tick and each token I, the tick's
\* feeGrowthOutsideIX64 equals the value feeGrowthGlobalIX64 had at the latest
\* of: a tick walk (of a swap or of an estimator) that crossed the tick with
\* token I as its input token, and a flash repay; it is 0 when neither has
\* happened since the tick was created.
C9_OutsideIsLastSnapshot == FeeGrowthOutside(ticks) = snapshotAt

\* some tick was crossed by a swap and holds a positive snapshot
C9_Witness ==
  \E t \in DOMAIN ticks :
    /\ crossedAt[t] # <<>>
    /\ ticks[t].feeGrowthOutside0X64 + ticks[t].feeGrowthOutside1X64 > 0

\* --------------------------------------------------- calculateFees alone
CalculateFees(amountIn) ==
  /\ lastCall' = [op |-> "calculateFees", args |-> <<amountIn>>,
                  ret |-> calculateFees(amountIn)]
  /\ UNCHANGED <<poolVars, validationStats, crossedAt, snapshotAt, ledger, ledgerClean,
                 swapped, baseLiquidity>>

InitFees == InitPool(FeeRateConfigs, InitTicks, InitLiquidity)

NextFees == \E a \in -1..MaxFeeAmount : Call(1) /\ CalculateFees(a)

SpecFees == InitFees /\ [][NextFees]_vars

FeeSplitHolds(amountIn, fees) ==
  /\ fees.lpFee + fees.protocolFee = fees.totalFee
  /\ fees.protocolFee >= 0
  /\ fees.totalFee > 0 => fees.lpFee >= 1
  /\ fees.totalFee <= amountIn

\* C10: for every amountIn >= 0 and every feeRatePpm the pool can be
\* configured with, calculateFees returns lpFee + protocolFee = totalFee,
\* protocolFee >= 0, lpFee >= 1 whenever totalFee > 0, and totalFee <= amountIn.
C10_FeeSplit ==
  (lastCall.op = "calculateFees" /\ lastCall.args[1] >= 0) =>
    FeeSplitHolds(lastCall.args[1], lastCall.ret)

\* C11: in every state reachable from a pool initialized with liquidity >= 0
\* by liquidity deltas (removals larger than the active liquidity included),
\* swaps that cross ticks in either direction, flash repays and estimator
\* calls, liquidity >= 0.
C11_LiquidityNonNegative == liquidity >= 0

\* the first call removed liquidity from a range around the current tick of a
\* pool that had none
C11_Witness ==
  /\ calls = 1 /\ baseLiquidity = 0
  /\ lastCall.op = "applyLiquidityDelta"
  /\ lastCall.args[3] < 0
  /\ lastCall.args[1] <= tickCurrent /\ tickCurrent < lastCall.args[2]
  /\ liquidity = 0

\* ------------------------------------------------------- serialization
\* configuration the constructor sets and no operation assigns (lines 30-34)
tickSpacing == 60
protocolFeeShareNumerator == 1
protocolFeeShareDenominator == 5
\* float(feeRatePpm) / 1e6, held in parts per million
feeRate == feeRatePpm

RECURSIVE Digits(_)
Digits(n) == IF n < 10 THEN <<n>> ELSE Digits(n \div 10) \o <<n % 10>>

\* str(n) of a Python int: an optional minus sign and the decimal digits
str(n) == [minus |-> n < 0, digits |-> Digits(Abs(n))]

RECURSIVE DigitsValue(_)
DigitsValue(d) ==
  IF Len(d) = 0 THEN 0 ELSE 10 * DigitsValue(SubSeq(d, 1, Len(d) - 1)) + d[Len(d)]

\* int(s) that reads the digits and drops the sign
int_NoSign(s) == DigitsValue(s.digits)

\* int(s) of a decimal string
int(s) == IF s.minus THEN -DigitsValue(s.digits) ELSE DigitsValue(s.digits)

\* the members of a set in the order an iteration yields them
RECURSIVE Listed(_)
Listed(S) ==
  IF S = {} THEN <<>>
  ELSE LET x == CHOOSE y \in S : TRUE IN <<x>> \o Listed(S \ {x})

\* the state dict serialize dumps as JSON
serialize ==
  [reserveA |-> str(reserveA), reserveB |-> str(reserveB),
   sqrtPriceX64 |-> str(sqrtPriceX64), liquidity |-> str(liquidity),
   tickCurrent |-> tickCurrent, feeRate |-> feeRate, tickSpacing |-> tickSpacing,
   feeRatePpm |-> str(feeRatePpm),
   protocolFeeShareNumerator |-> str(protocolFeeShareNumerator),
   protocolFeeShareDenominator |-> str(protocolFeeShareDenominator),
   feeGrowthGlobal0X64 |-> str(feeGrowthGlobal0X64),
   feeGrowthGlobal1X64 |-> str(feeGrowthGlobal1X64),
   totalSwapFee0 |-> str(totalSwapFee0), totalSwapFee1 |-> str(totalSwapFee1),
   ticks |-> LET keys == Listed(DOMAIN ticks)
             IN [i \in DOMAIN keys |->
                   [tick |-> keys[i],
                    liquidityNet |-> str(ticks[keys[i]].liquidityNet),
                    liquidityGross |-> str(ticks[keys[i]].liquidityGross),
                    feeGrowthOutside0X64 |-> str(ticks[keys[i]].feeGrowthOutside0X64),
                    feeGrowthOutside1X64 |-> str(ticks[keys[i]].feeGrowthOutside1X64)]],
   tickBitmap |-> Listed(tickBitmap)]

\* the fields of the pool deserialize builds from a state dict
deserialize(state) ==
  [reserveA |-> int(state.reserveA), reserveB |-> int(state.reserveB),
   sqrtPriceX64 |-> int(state.sqrtPriceX64), liquidity |-> int(state.liquidity),
   tickCurrent |-> state.tickCurrent, feeRate |-> state.feeRate,
   tickSpacing |-> state.tickSpacing, feeRatePpm |-> int(state.feeRatePpm),
   protocolFeeShareNumerator |-> int(state.protocolFeeShareNumerator),
   protocolFeeShareDenominator |-> int(state.protocolFeeShareDenominator),
   feeGrowthGlobal0X64 |-> int(state.feeGrowthGlobal0X64),
   feeGrowthGlobal1X64 |-> int(state.feeGrowthGlobal1X64),
   totalSwapFee0 |-> int(state.totalSwapFee0), totalSwapFee1 |-> int(state.totalSwapFee1),
   ticks |-> [t \in {state.ticks[i].tick : i \in DOMAIN state.ticks} |->
                LET i == CHOOSE j \in DOMAIN state.ticks :
                           /\ state.ticks[j].tick = t
                           /\ \A k \in DOMAIN state.ticks :
                                state.ticks[k].tick = t => k <= j
                    tickData == state.ticks[i]
                IN [liquidityNet |-> int(tickData.liquidityNet),
                    liquidityGross |-> int(tickData.liquidityGross),
                    feeGrowthOutside0X64 |-> int(tickData.feeGrowthOutside0X64),
                    feeGrowthOutside1X64 |-> int(tickData.feeGrowthOutside1X64)]],
   tickBitmap |-> {state.tickBitmap[i] : i \in DOMAIN state.tickBitmap}]

\* the pool is replaced by deserialize(serialize()) of itself
Deserialize ==
  LET q == deserialize(serialize)
  IN /\ reserveA' = q.reserveA /\ reserveB' = q.reserveB
     /\ sqrtPriceX64' = q.sqrtPriceX64 /\ liquidity' = q.liquidity
     /\ tickCurrent' = q.tickCurrent /\ feeRatePpm' = q.feeRatePpm
     /\ ticks' = q.ticks /\ tickBitmap' = q.tickBitmap
     /\ feeGrowthGlobal0X64' = q.feeGrowthGlobal0X64
     /\ feeGrowthGlobal1X64' = q.feeGrowthGlobal1X64
     /\ totalSwapFee0' = q.totalSwapFee0 /\ totalSwapFee1' = q.totalSwapFee1
     /\ validationStats' = NoStats
     /\ lastCall' = [op |-> "deserialize", args |-> <<>>, ret |-> 0]
     /\ UNCHANGED <<crossedAt, snapshotAt, ledger, ledgerClean, swapped, baseLiquidity>>

NextReload ==
  \/ Next
  \/ Call(MaxCalls) /\ Deserialize

SpecReload == Init /\ [][NextReload]_vars

\* C12: for every reachable pool p, deserialize(serialize(p)) has the same
\* reserves, price, liquidity, tick, fee rate, tick spacing, protocol fee
\* share, global fee growth, total swap fees, ticks and tickBitmap as p, so
\* every later operation, which reads only these fields, returns on it what
\* it returns on p.
C12_SerializeRoundTrip ==
  deserialize(serialize) =
    [reserveA |-> reserveA, reserveB |-> reserveB, sqrtPriceX64 |-> sqrtPriceX64,
     liquidity |-> liquidity, tickCurrent |-> tickCurrent, feeRate |-> feeRate,
     tickSpacing |-> tickSpacing, feeRatePpm |-> feeRatePpm,
     protocolFeeShareNumerator |-> protocolFeeShareNumerator,
     protocolFeeShareDenominator |-> protocolFeeShareDenominator,
     feeGrowthGlobal0X64 |-> feeGrowthGlobal0X64,
     feeGrowthGlobal1X64 |-> feeGrowthGlobal1X64,
     totalSwapFee0 |-> totalSwapFee0, totalSwapFee1 |-> totalSwapFee1,
     ticks |-> ticks, tickBitmap |-> tickBitmap]

\* a pool with two ticks, one of negative liquidityNet, and collected fees was
\* written out and read back
C12_Witness ==
  /\ lastCall.op = "deserialize"
  /\ \E t \in DOMAIN ticks : ticks[t].liquidityNet < 0
  /\ totalSwapFee0 + totalSwapFee1 > 0

\* out is at most the exact (unrounded) output that constant liquidity L pays
\* at sqrt price P for the input x: x*s*s*L / (L + x*s) of token 1 for token 0
\* in, x*L / (s*(L*s + x)) of token 0 for token 1 in, where s = P / Q64
WithinConstantLiquidityOutput(out, x, L, P, zeroForOne) ==
  IF x <= 0 THEN out <= 0
  ELSE IF zeroForOne
    THEN out * (L * Q64 + x * P) * Q64 <= x * P * P * L
    ELSE out * P * (L * P + x * Q64) <= x * L * Q64 * Q64

\* C13: with active liquidity L > 0, for every amountIn and direction, swaps
\* that cross initialized ticks into ranges of different liquidity included,
\* the amountOut of applySwap is at most the exact constant-liquidity output
\* that L at the pre-swap price pays for the same input.
C13_OutputWithinConstantLiquidity ==
  [][(IsSwap(lastCall') /\ liquidity > 0) =>
       WithinConstantLiquidityOutput(lastCall'.ret, SwapAmountIn(lastCall'), liquidity,
                                     sqrtPriceX64, SwapZeroForOne(lastCall'))]_vars

\* the price lies in the bracket of the current tick
PriceInTickBracket(P, t) == tickToSqrtPrice(t) <= P /\ P < tickToSqrtPrice(t + 1)

\* C14: if tickToSqrtPrice(tickCurrent) <= sqrtPriceX64 <
\* tickToSqrtPrice(tickCurrent + 1) holds before an operation, it holds after
\* every applySwap (any amountIn, either direction, with or without
\* crossings), applyLiquidityDelta and applyRepayFlashSwap.
C14_PriceStaysInTickBracket ==
  [][(/\ lastCall'.op \in {"applySwap", "applyLiquidityDelta", "applyRepayFlashSwap"}
      /\ PriceInTickBracket(sqrtPriceX64, tickCurrent)) =>
       PriceInTickBracket(sqrtPriceX64', tickCurrent')]_vars

\* C15: on the same pool state, estimateAmountOut(amountIn, dir).amountOut is
\* the value applySwap(amountIn, dir) returns and its feeAmount is the lpFee
\* of calculateFees(amountIn), for every amountIn and direction.
C15_EstimateMatchesSwap ==
  \A amountIn \in SwapAmounts \cup EstimateAmounts, zeroForOne \in BOOLEAN :
    LET estimate == estimateAmountOut(amountIn, zeroForOne)
        fees == calculateFees(amountIn)
    IN /\ estimate.amountOut = applySwapInternal(amountIn, zeroForOne, fees).amountOut
       /\ estimate.feeAmount = fees.lpFee

\* a pool with liquidity on both sides of a tick below the price, where a
\* swap of 6 pays out across the tick
C15_Witness ==
  /\ liquidity > 0
  /\ \E t \in tickBitmap : t < tickCurrent
  /\ applySwapInternal(6, TRUE, calculateFees(6)).crossed # {}
  /\ estimateAmountOut(6, TRUE).amountOut > 0

\* ------------------------------------------------------- estimateAmountIn
\* The while loop of estimateAmountIn from search state b = [low, high,
\* bestGrossAmountIn, liquidity, ticks, crossed]; every probe runs
\* executeCLMMSwap on the pool, which keeps the liquidity and tick records
\* the previous probes left.
\* what one probe of the search leaves: the result of executeCLMMSwap on the
\* net of gross, run on the liquidity and ticks the earlier probes left
testSwap(b, gross, zeroForOne) ==
  LET fees == calculateFees(gross)
      net == IF gross > fees.totalFee THEN gross - fees.totalFee ELSE 0
      g == <<feeGrowthGlobal0X64, feeGrowthGlobal1X64>>
      idle == [amountOut |-> 0, sqrtPrice |-> sqrtPriceX64, tick |-> tickCurrent,
               remaining |-> 0, liquidity |-> b.liquidity, ticks |-> b.ticks,
               crossed |-> {}, iterations |-> 0]
  IN IF net > 0
       THEN walkLoop([idle EXCEPT !.remaining = net], tickBitmap, g, zeroForOne)
       ELSE idle

\* b and testResult range over one value each, so that each probe is computed
\* once
RECURSIVE searchLoop(_, _, _)
searchLoop(searchState, amountOut, zeroForOne) ==
  CHOOSE after \in UNION
    { IF b.low > b.high THEN {b}
      ELSE
        { LET gross == (b.low + b.high) \div 2
              probed == [b EXCEPT !.liquidity = testResult.liquidity,
                                  !.ticks = testResult.ticks,
                                  !.crossed = b.crossed \cup testResult.crossed]
          IN IF testResult.amountOut = amountOut
               THEN [probed EXCEPT !.bestGrossAmountIn = gross]
             ELSE IF testResult.amountOut < amountOut
               THEN searchLoop([probed EXCEPT !.low = gross + 1], amountOut, zeroForOne)
             ELSE searchLoop([probed EXCEPT !.bestGrossAmountIn = gross,
                                            !.high = gross - 1],
                             amountOut, zeroForOne)
          : testResult \in {testSwap(b, (b.low + b.high) \div 2, zeroForOne)} }
      : b \in {searchState} } : TRUE

\* what estimateAmountIn returns (amountIn, feeAmount) and the pool fields its
\* probes leave
estimateAmountIn(amountOut, zeroForOne) ==
  CHOOSE ret \in
    { [amountIn |-> b.bestGrossAmountIn,
       feeAmount |-> calculateFees(b.bestGrossAmountIn).lpFee,
       liquidity |-> b.liquidity, ticks |-> b.ticks, crossed |-> b.crossed]
      : b \in {searchLoop([low |-> 0, high |-> amountOut * 2, bestGrossAmountIn |-> 0,
                           liquidity |-> liquidity, ticks |-> ticks, crossed |-> {}],
                          amountOut, zeroForOne)} } : TRUE

EstimateAmountIn(amountOut, zeroForOne) ==
  \E r \in {estimateAmountIn(amountOut, zeroForOne)} :
    /\ liquidity' = r.liquidity
    /\ ticks' = r.ticks
    /\ snapshotAt' = SnapshotHistory(snapshotAt, r.crossed,
                                     <<feeGrowthGlobal0X64, feeGrowthGlobal1X64>>,
                                     zeroForOne)
    /\ lastCall' = [op |-> "estimateAmountIn", args |-> <<amountOut, zeroForOne>>,
                    ret |-> r.amountIn]
    /\ UNCHANGED <<reserveA, reserveB, sqrtPriceX64, tickCurrent, feeRatePpm, tickBitmap,
                   feeGrowthGlobal0X64, feeGrowthGlobal1X64, totalSwapFee0, totalSwapFee1,
                   validationStats, crossedAt, ledger, ledgerClean, swapped,
                   baseLiquidity>>

NextEstimates ==
  \/ \E r \in Ranges, d \in LiquidityDeltas :
       Call(MaxCalls) /\ ApplyLiquidityDelta(r[1], r[2], d)
  \/ \E a \in SwapAmounts, z \in BOOLEAN : Call(MaxCalls) /\ ApplySwap(a, z)
  \/ \E a \in EstimateTargets, z \in BOOLEAN : Call(MaxCalls) /\ EstimateAmountIn(a, z)

SpecEstimates == Init /\ [][NextEstimates]_vars

\* the output simulated for the gross input gross: the swap of gross minus its fees
SimulatedOutput(gross, zeroForOne) == estimateAmountOut(gross, zeroForOne).amountOut

\* C16: for every pool state, target amountOut > 0 and direction,
\* estimateAmountIn returns the smallest gross input in [0, 2*amountOut] whose
\* simulated output is >= amountOut, or a gross input whose simulated output
\* is exactly amountOut; the simulated output of the returned amountIn is
\* never below the target.
C16_EstimateAmountInReachesTarget ==
  [][lastCall'.op = "estimateAmountIn" =>
       LET amountOut == lastCall'.args[1]
           zeroForOne == lastCall'.args[2]
           amountIn == lastCall'.ret
       IN /\ amountIn \in 0..(2 * amountOut)
          /\ SimulatedOutput(amountIn, zeroForOne) >= amountOut
          /\ \/ SimulatedOutput(amountIn, zeroForOne) = amountOut
             \/ \A gross \in 0..(amountIn - 1) :
                  SimulatedOutput(gross, zeroForOne) < amountOut]_vars

\* C17: applySwap with zeroForOne = true never leaves sqrtPriceX64 higher
\* than before, and with zeroForOne = false never lower, for every amountIn
\* and whether or not ticks are crossed.
C17_PriceMovesWithDirection ==
  [][IsSwap(lastCall') =>
       IF SwapZeroForOne(lastCall') THEN sqrtPriceX64' <= sqrtPriceX64
       ELSE sqrtPriceX64' >= sqrtPriceX64]_vars

\* the second call was a descending swap that crossed a tick and ended below tick 0
C17_Witness ==
  /\ calls = 2
  /\ IsSwap(lastCall) /\ SwapZeroForOne(lastCall)
  /\ tickCurrent < 0
  /\ sqrtPriceX64 < tickToSqrtPrice(0)
  /\ \E t \in DOMAIN crossedAt : crossedAt[t] # <<>>

\* ------------------------------------------------- tick/price conversions
TickToSqrtPrice(tick) ==
  /\ lastCall' = [op |-> "tickToSqrtPrice", args |-> <<tick>>,
                  ret |-> tickToSqrtPrice(tick)]
  /\ UNCHANGED <<poolVars, validationStats, crossedAt, snapshotAt, ledger, ledgerClean,
                 swapped, baseLiquidity>>

SqrtPriceToTick(sqrt_price) ==
  /\ lastCall' = [op |-> "sqrtPriceToTick", args |-> <<sqrt_price>>,
                  ret |-> sqrtPriceToTick(sqrt_price)]
  /\ UNCHANGED <<poolVars, validationStats, crossedAt, snapshotAt, ledger, ledgerClean,
                 swapped, baseLiquidity>>

\* a tick is converted to its price and the price back to a tick
NextTicks ==
  \/ \E t \in (-MaxTick)..MaxTick : calls = 0 /\ Call(2) /\ TickToSqrtPrice(t)
  \/ lastCall.op = "tickToSqrtPrice" /\ Call(2) /\ SqrtPriceToTick(lastCall.ret)

SpecTicks == InitFees /\ [][NextTicks]_vars

\* C18: sqrtPriceToTick(tickToSqrtPrice(t)) = t for every tick t of the
\* operating range, tickToSqrtPrice being the floor of sqrt(Base^t) in fixed
\* point and sqrtPriceToTick the floor of the logarithm.
C18_TickRoundTrip ==
  [][(lastCall.op = "tickToSqrtPrice" /\ lastCall'.op = "sqrtPriceToTick") =>
       lastCall'.ret = lastCall.args[1]]_vars

\* C19: every run of the tick-walk loop terminates: each iteration consumes
\* all that remains, crosses one initialized tick strictly further in the
\* swap direction after consuming Mmax > 0, or breaks, so the loop runs at
\* most (number of initialized ticks + 1) iterations.
C19_WalkTerminates ==
  \A amountIn \in WalkInputs, zeroForOne \in BOOLEAN :
    LET g == <<feeGrowthGlobal0X64, feeGrowthGlobal1X64>>
        w == executeCLMMSwap(liquidity, g, amountIn, zeroForOne)
    IN /\ w.iterations <= Cardinality(tickBitmap) + 1
       /\ w.crossed \subseteq TicksOnSide(zeroForOne)
       /\ w.iterations = Cardinality(w.crossed) + 1
       /\ w.remaining < amountIn \/ w.crossed = {}

\* a pool in which a walk of 12 crosses two ticks and ends in a third iteration
C19_Witness ==
  LET g == <<feeGrowthGlobal0X64, feeGrowthGlobal1X64>>
  IN \E zeroForOne \in BOOLEAN :
       executeCLMMSwap(liquidity, g, 12, zeroForOne).iterations = 3

\* the record of tick after a call that moved its liquidityNet by netDelta and
\* its liquidityGross by grossDelta and then applied the delete-or-clamp rule
\* of updateTick
TickMovedBy(tick, netDelta, grossDelta) ==
  LET old == IF tick \in DOMAIN ticks THEN ticks[tick] ELSE EmptyTick
      net == old.liquidityNet + netDelta
      gross == old.liquidityGross + grossDelta
  IN IF gross <= 0 /\ net = 0 THEN tick \notin DOMAIN ticks'
     ELSE /\ tick \in DOMAIN ticks'
          /\ ticks'[tick].liquidityNet = net
          /\ ticks'[tick].liquidityGross = (IF gross < 0 THEN 0 ELSE gross)

\* C20: for every nonzero liquidityDelta, positive or negative,
\* applyLiquidityDelta adds liquidityDelta to tickLower's liquidityNet,
\* subtracts it from tickUpper's liquidityNet and adds |liquidityDelta| to the
\* liquidityGross of both ticks, before the delete-or-clamp rule is applied.
C20_GrossGrowsByMagnitude ==
  [][lastCall'.op = "applyLiquidityDelta" =>
       LET tickLower == lastCall'.args[1]
           tickUpper == lastCall'.args[2]
           liquidityDelta == lastCall'.args[3]
       IN /\ TickMovedBy(tickLower, liquidityDelta, Abs(liquidityDelta))
          /\ TickMovedBy(tickUpper, -liquidityDelta, Abs(liquidityDelta))]_vars

\* C20 as amended: applyLiquidityDelta adds liquidityDelta to tickLower's
\* liquidityNet, subtracts it from tickUpper's liquidityNet and adds the
\* signed liquidityDelta to the liquidityGross of both ticks (+|delta| on an
\* addition, -|delta| on a removal), before the delete-or-clamp rule is
\* applied.
C20_GrossMovesBySignedDelta ==
  [][lastCall'.op = "applyLiquidityDelta" =>
       LET tickLower == lastCall'.args[1]
           tickUpper == lastCall'.args[2]
           liquidityDelta == lastCall'.args[3]
       IN /\ TickMovedBy(tickLower, liquidityDelta, liquidityDelta)
          /\ TickMovedBy(tickUpper, -liquidityDelta, liquidityDelta)]_vars

\* a removal left its upper tick initialized with a smaller, positive liquidityGross
C20_Witness ==
  /\ lastCall.op = "applyLiquidityDelta"
  /\ lastCall.args[3] < 0
  /\ lastCall.args[2] \in DOMAIN ticks
  /\ ticks[lastCall.args[2]].liquidityGross > 0
  /\ ledgerClean

\* ------------------------------------- liquidity deltas, zero included
NextDeltas ==
  \E r \in Ranges, d \in LiquidityDeltas \cup {0} :
    Call(MaxLiquidityCalls) /\ ApplyLiquidityDelta(r[1], r[2], d)

SpecDeltas == Init /\ [][NextDeltas]_vars

IsLiquidityDelta(call) == call.op = "applyLiquidityDelta"

\* the range of the call holds the current tick and its delta is not zero
DeltaApplies(call) ==
  call.args[3] # 0 /\ call.args[1] <= tickCurrent /\ tickCurrent < call.args[2]

Max(a, b) == IF a >= b THEN a ELSE b

\* C21: applyLiquidityDelta changes the active liquidity if and only if
\* liquidityDelta # 0 and tickLower <= tickCurrent < tickUpper, in which case
\* the new value is max(old + liquidityDelta, 0); with liquidityDelta = 0 it
\* changes nothing at all (no tick entry is created); and it never changes
\* sqrtPriceX64, tickCurrent, the global fee growths or totalSwapFee0/1.
C21_LiquidityChangesIffInRange ==
  [][IsLiquidityDelta(lastCall') =>
       /\ (liquidity' # liquidity) <=> DeltaApplies(lastCall')
       /\ DeltaApplies(lastCall') =>
            liquidity' = Max(liquidity + lastCall'.args[3], 0)
       /\ lastCall'.args[3] = 0 => UNCHANGED <<poolVars, validationStats>>
       /\ UNCHANGED <<sqrtPriceX64, tickCurrent, feeGrowthGlobal0X64,
                      feeGrowthGlobal1X64, totalSwapFee0, totalSwapFee1>>]_vars

\* C21 as amended: applyLiquidityDelta sets the active liquidity to
\* max(old + liquidityDelta, 0) when liquidityDelta # 0 and tickLower <=
\* tickCurrent < tickUpper, and leaves it alone otherwise; the value set
\* equals the old one when old + liquidityDelta <= 0 = old (a removal from a
\* pool with no active liquidity).  With liquidityDelta = 0 it changes nothing
\* at all, and it never changes sqrtPriceX64, tickCurrent, the global fee
\* growths or totalSwapFee0/1.
C21_LiquiditySetWhenInRange ==
  [][IsLiquidityDelta(lastCall') =>
       /\ liquidity' = IF DeltaApplies(lastCall')
                         THEN Max(liquidity + lastCall'.args[3], 0)
                         ELSE liquidity
       /\ lastCall'.args[3] = 0 => UNCHANGED <<poolVars, validationStats>>
       /\ UNCHANGED <<sqrtPriceX64, tickCurrent, feeGrowthGlobal0X64,
                      feeGrowthGlobal1X64, totalSwapFee0, totalSwapFee1>>]_vars

\* the second call removed liquidity from a range around the current tick and
\* left the active liquidity at 0
C21_Witness ==
  /\ calls = 2 /\ baseLiquidity = 4
  /\ IsLiquidityDelta(lastCall) /\ lastCall.args[3] = -4
  /\ DeltaApplies(lastCall)
  /\ liquidity = 0
  /\ \E t \in tickBitmap : t < 0

\* ------------------------------------------------------ getNextTick alone
GetNextTick(currentTick, zeroForOne) ==
  /\ lastCall' = [op |-> "getNextTick", args |-> <<currentTick, zeroForOne>>,
                  ret |-> getNextTick(tickBitmap, currentTick, zeroForOne)]
  /\ UNCHANGED <<poolVars, validationStats, crossedAt, snapshotAt, ledger, ledgerClean,
                 swapped, baseLiquidity>>

NextNextTick ==
  \/ \E r \in Ranges, d \in LiquidityDeltas :
       Call(MaxCalls) /\ ApplyLiquidityDelta(r[1], r[2], d)
  \/ \E c \in (-MaxTick)..MaxTick, z \in BOOLEAN : Call(MaxCalls) /\ GetNextTick(c, z)

SpecNextTick == Init /\ [][NextNextTick]_vars

\* C22: for every tick book and every current tick, getNextTick(current,
\* zeroForOne) returns the greatest initialized tick strictly less than current
\* when zeroForOne is true, the least initialized tick strictly greater than
\* current when it is false, and None exactly when no such tick exists; an
\* initialized tick equal to current is never returned.
C22_NextTickIsNearestStrict ==
  lastCall.op = "getNextTick" =>
    LET current == lastCall.args[1]
        zeroForOne == lastCall.args[2]
        side == IF zeroForOne THEN {t \in tickBitmap : t < current}
                ELSE {t \in tickBitmap : t > current}
    IN /\ (lastCall.ret = <<>>) <=> (side = {})
       /\ lastCall.ret # <<>> =>
            /\ Len(lastCall.ret) = 1
            /\ lastCall.ret[1] \in side
            /\ lastCall.ret[1] # current
            /\ \A u \in side : IF zeroForOne THEN u <= lastCall.ret[1]
                               ELSE u >= lastCall.ret[1]

\* asked downwards from an initialized tick with two initialized ticks below
\* it, getNextTick returned the nearer one
C22_Witness ==
  /\ lastCall.op = "getNextTick"
  /\ lastCall.args[2] = TRUE
  /\ lastCall.args[1] \in tickBitmap
  /\ Cardinality({t \in tickBitmap : t < lastCall.args[1]}) = 2
  /\ lastCall.ret = <<0>>

\* ------------------------------------------------ swaps, plain or validated
IsAnySwap(call) == call.op \in {"applySwap", "applySwapWithValidation"}

\* the fee record a swap call hands to applySwapInternal
SwapFees(call) ==
  LET computedFees == calculateFees(call.args[1])
  IN IF call.op = "applySwap" THEN computedFees
     ELSE LET lpFee == IF Given(call.args[4]) THEN call.args[4][1]
                       ELSE computedFees.lpFee
              protocolFee == IF Given(call.args[5]) THEN call.args[5][1]
                             ELSE computedFees.protocolFee
          IN [totalFee |-> lpFee + protocolFee, lpFee |-> lpFee,
              protocolFee |-> protocolFee]

\* the ticks the walk of a swap call crosses from the current state
CrossedBy(call) == applySwapInternal(call.args[1], call.args[2], SwapFees(call)).crossed

\* C23: when a swap crosses initialized tick t, t's feeGrowthOutside slot of
\* the input token (0 for zeroForOne, 1 otherwise) is set to the global fee
\* growth of that token current at the crossing, i.e. the one the swap leaves;
\* t's slot for the other token and both slots of every tick not crossed in
\* that swap are left unchanged.
C23_CrossingSnapshotsInputSide ==
  [][IsAnySwap(lastCall') =>
       LET zeroForOne == lastCall'.args[2]
           crossed == CrossedBy(lastCall')
       IN /\ DOMAIN ticks' = DOMAIN ticks
          /\ \A t \in DOMAIN ticks :
               /\ ticks'[t].feeGrowthOutside0X64 =
                    IF t \in crossed /\ zeroForOne THEN feeGrowthGlobal0X64'
                    ELSE ticks[t].feeGrowthOutside0X64
               /\ ticks'[t].feeGrowthOutside1X64 =
                    IF t \in crossed /\ ~zeroForOne THEN feeGrowthGlobal1X64'
                    ELSE ticks[t].feeGrowthOutside1X64]_vars

\* the second call is a swap that crossed a tick and left on it the positive
\* fee growth of its input token, the other slot still 0
C23_Witness ==
  /\ calls = 2
  /\ IsAnySwap(lastCall)
  /\ \E t \in DOMAIN ticks :
       /\ crossedAt[t] # <<>>
       /\ IF lastCall.args[2]
            THEN /\ ticks[t].feeGrowthOutside0X64 = feeGrowthGlobal0X64
                 /\ feeGrowthGlobal0X64 > 0
                 /\ ticks[t].feeGrowthOutside1X64 = 0
            ELSE /\ ticks[t].feeGrowthOutside1X64 = feeGrowthGlobal1X64
                 /\ feeGrowthGlobal1X64 > 0
                 /\ ticks[t].feeGrowthOutside0X64 = 0
  /\ \E u \in DOMAIN ticks : crossedAt[u] = <<>>

\* ------------------------------------------- calculateFeeGrowthInside alone
\* calculateFeeGrowthInside that takes a current tick equal to tickUpper as
\* inside the range (> for >=)
calculateFeeGrowthInside_UpperInclusive(tickLower, tickUpper, tokenIndex) ==
  LET globalFeeGrowth == IF tokenIndex = 0 THEN feeGrowthGlobal0X64
                         ELSE feeGrowthGlobal1X64
  IN IF tickLower \notin DOMAIN ticks \/ tickUpper \notin DOMAIN ticks THEN 0
     ELSE
       LET feeGrowthOutsideLower == IF tokenIndex = 0
                                      THEN ticks[tickLower].feeGrowthOutside0X64
                                      ELSE ticks[tickLower].feeGrowthOutside1X64
           feeGrowthOutsideUpper == IF tokenIndex = 0
                                      THEN ticks[tickUpper].feeGrowthOutside0X64
                                      ELSE ticks[tickUpper].feeGrowthOutside1X64
       IN IF tickCurrent < tickLower
            THEN submod(feeGrowthOutsideLower, feeGrowthOutsideUpper)
          ELSE IF tickCurrent > tickUpper
            THEN submod(feeGrowthOutsideUpper, feeGrowthOutsideLower)
          ELSE submod(submod(globalFeeGrowth, feeGrowthOutsideLower),
                      feeGrowthOutsideUpper)

\* calculateFeeGrowthInside that subtracts without saturating at 0
calculateFeeGrowthInside_Wrapping(tickLower, tickUpper, tokenIndex) ==
  LET globalFeeGrowth == IF tokenIndex = 0 THEN feeGrowthGlobal0X64
                         ELSE feeGrowthGlobal1X64
  IN IF tickLower \notin DOMAIN ticks \/ tickUpper \notin DOMAIN ticks THEN 0
     ELSE
       LET feeGrowthOutsideLower == IF tokenIndex = 0
                                      THEN ticks[tickLower].feeGrowthOutside0X64
                                      ELSE ticks[tickLower].feeGrowthOutside1X64
           feeGrowthOutsideUpper == IF tokenIndex = 0
                                      THEN ticks[tickUpper].feeGrowthOutside0X64
                                      ELSE ticks[tickUpper].feeGrowthOutside1X64
       IN IF tickCurrent < tickLower
            THEN feeGrowthOutsideLower - feeGrowthOutsideUpper
          ELSE IF tickCurrent >= tickUpper
            THEN feeGrowthOutsideUpper - feeGrowthOutsideLower
          ELSE (globalFeeGrowth - feeGrowthOutsideLower) - feeGrowthOutsideUpper

calculateFeeGrowthInside(tickLower, tickUpper, tokenIndex) ==
  LET globalFeeGrowth == IF tokenIndex = 0 THEN feeGrowthGlobal0X64
                         ELSE feeGrowthGlobal1X64
  IN IF tickLower \notin DOMAIN ticks \/ tickUpper \notin DOMAIN ticks THEN 0
     ELSE
       LET feeGrowthOutsideLower == IF tokenIndex = 0
                                      THEN ticks[tickLower].feeGrowthOutside0X64
                                      ELSE ticks[tickLower].feeGrowthOutside1X64
           feeGrowthOutsideUpper == IF tokenIndex = 0
                                      THEN ticks[tickUpper].feeGrowthOutside0X64
                                      ELSE ticks[tickUpper].feeGrowthOutside1X64
       IN IF tickCurrent < tickLower
            THEN submod(feeGrowthOutsideLower, feeGrowthOutsideUpper)
          ELSE IF tickCurrent >= tickUpper
            THEN submod(feeGrowthOutsideUpper, feeGrowthOutsideLower)
          ELSE submod(submod(globalFeeGrowth, feeGrowthOutsideLower),
                      feeGrowthOutsideUpper)

CalculateFeeGrowthInside(tickLower, tickUpper, tokenIndex) ==
  /\ lastCall' = [op |-> "calculateFeeGrowthInside",
                  args |-> <<tickLower, tickUpper, tokenIndex>>,
                  ret |-> calculateFeeGrowthInside(tickLower, tickUpper, tokenIndex)]
  /\ UNCHANGED <<poolVars, validationStats, crossedAt, snapshotAt, ledger, ledgerClean,
                 swapped, baseLiquidity>>

\* positions, swaps and flash repays build the fee growth the query reads; the
\* query takes any pair of ticks, ordered or not, initialized or not
NextFeeInside ==
  \/ \E r \in Ranges, d \in LiquidityDeltas :
       Call(MaxCalls) /\ ApplyLiquidityDelta(r[1], r[2], d)
  \/ \E a \in SwapAmounts, z \in BOOLEAN : Call(MaxCalls) /\ ApplySwap(a, z)
  \/ \E f \in FlashArgs :
       Call(MaxCalls) /\ ApplyRepayFlashSwap(f[1], f[2], f[3], f[4], f[5], f[6])
  \/ \E tL \in PositionTicks, tU \in PositionTicks, I \in {0, 1} :
       Call(MaxCalls) /\ CalculateFeeGrowthInside(tL, tU, I)

SpecFeeInside == Init /\ [][NextFeeInside]_vars

\* C24: for every range (tL, tU), token I and pool state,
\* calculateFeeGrowthInside returns 0 when either tick is uninitialized;
\* otherwise max(outsideLower - outsideUpper, 0) when tickCurrent < tL,
\* max(outsideUpper - outsideLower, 0) when tickCurrent >= tU, and
\* max(max(global - outsideLower, 0) - outsideUpper, 0) otherwise; the result
\* is never negative.
C24_FeeGrowthInsideSaturates ==
  lastCall.op = "calculateFeeGrowthInside" =>
    LET tL == lastCall.args[1]
        tU == lastCall.args[2]
        I == lastCall.args[3]
        global == <<feeGrowthGlobal0X64, feeGrowthGlobal1X64>>[I + 1]
        outside == FeeGrowthOutside(ticks)
    IN /\ lastCall.ret >= 0
       /\ lastCall.ret =
            IF tL \notin tickBitmap \/ tU \notin tickBitmap THEN 0
            ELSE IF tickCurrent < tL
              THEN Max(outside[tL][I + 1] - outside[tU][I + 1], 0)
            ELSE IF tickCurrent >= tU
              THEN Max(outside[tU][I + 1] - outside[tL][I + 1], 0)
            ELSE Max(Max(global - outside[tL][I + 1], 0) - outside[tU][I + 1], 0)

\* the query ran on two initialized ticks whose difference of outside growths
\* is negative on the side the current tick selects, and returned 0
C24_Witness ==
  /\ lastCall.op = "calculateFeeGrowthInside"
  /\ lastCall.args[1] \in tickBitmap /\ lastCall.args[2] \in tickBitmap
  /\ lastCall.args[1] < lastCall.args[2]
  /\ lastCall.ret = 0
  /\ LET I == lastCall.args[3]
         outside == FeeGrowthOutside(ticks)
         lower == outside[lastCall.args[1]][I + 1]
         upper == outside[lastCall.args[2]][I + 1]
     IN \/ tickCurrent < lastCall.args[1] /\ lower < upper
        \/ tickCurrent >= lastCall.args[2] /\ upper < lower
        \/ /\ lastCall.args[1] <= tickCurrent /\ tickCurrent < lastCall.args[2]
           /\ <<feeGrowthGlobal0X64, feeGrowthGlobal1X64>>[I + 1] - lower < upper

\* ------------------------------------- swaps at a fee rate with a protocol share
\* the rates and amounts make lpFee and totalFee differ: at 500000 ppm an
\* input of 10 pays rawFee 5, lpFee 4 and protocolFee 1
SwapFeeRates == {100, 500000}
SwapFeeAmounts == {3, 10}

InitSwapFees == InitPool(SwapFeeRates, InitTicks, InitLiquidity)

NextSwapFees ==
  \/ \E r \in Ranges, d \in LiquidityDeltas :
       Call(MaxCalls) /\ ApplyLiquidityDelta(r[1], r[2], d)
  \/ \E a \in SwapFeeAmounts, z \in BOOLEAN : Call(MaxCalls) /\ ApplySwap(a, z)

SpecSwapFees == InitSwapFees /\ [][NextSwapFees]_vars

\* C25: applySwap(amountIn > 0, dir) increases the input token's totalSwapFee
\* by exactly the totalFee of calculateFees(amountIn) and the input token's
\* feeGrowthGlobal by floor(lpFee * Q64 / L), where L is the active liquidity
\* before the swap walks any tick (by 0 when L = 0, the fee still being added
\* to totalSwapFee); the other token's totalSwapFee and feeGrowthGlobal are
\* unchanged.
C25_SwapBooksFeeAndGrowth ==
  [][(IsSwap(lastCall') /\ SwapAmountIn(lastCall') > 0) =>
       LET zeroForOne == SwapZeroForOne(lastCall')
           fees == calculateFees(SwapAmountIn(lastCall'))
           L == liquidity
           growth == IF L = 0 THEN 0 ELSE (fees.lpFee * Q64) \div L
       IN /\ FeeBooked(zeroForOne, fees.totalFee)
          /\ feeGrowthGlobal0X64' = feeGrowthGlobal0X64 + (IF zeroForOne THEN growth ELSE 0)
          /\ feeGrowthGlobal1X64' = feeGrowthGlobal1X64 + (IF zeroForOne THEN 0 ELSE growth)]_vars

\* a swap paid a fee with a protocol share and crossed a tick, so that the
\* liquidity it left differs from the one its fee was distributed over
C25_Witness ==
  /\ calls = 2
  /\ IsSwap(lastCall) /\ SwapAmountIn(lastCall) = 10
  /\ feeRatePpm = 500000
  /\ totalSwapFee0 + totalSwapFee1 = 5
  /\ feeGrowthGlobal0X64 + feeGrowthGlobal1X64 > 0
  /\ \E t \in DOMAIN ticks : crossedAt[t] # <<>>

\* ------------------------------------------------------------ flash repays
IsFlashRepay(call) == call.op = "applyRepayFlashSwap"

\* liquidityNet and liquidityGross of every tick
TickLiquidity(tks) ==
  [t \in DOMAIN tks |-> <<tks[t].liquidityNet, tks[t].liquidityGross>>]

\* C26: after applyRepayFlashSwap returns, every initialized tick has
\* feeGrowthOutside0X64 = feeGrowthGlobal0X64 and feeGrowthOutside1X64 =
\* feeGrowthGlobal1X64; the per-side fee credited to totalSwapFee and (divided
\* by the active liquidity, when positive) to fee growth is paid - debt when
\* paid > debt and 0 otherwise; reserves are replaced only when new values are
\* supplied; and sqrtPriceX64, tickCurrent, liquidity and every tick's
\* liquidityNet and liquidityGross are unchanged.
C26_FlashRepayEffect ==
  [][IsFlashRepay(lastCall') =>
       LET a == lastCall'.args
           feeX == Max(a[3] - a[1], 0)
           feeY == Max(a[4] - a[2], 0)
           growthX == IF liquidity > 0 THEN (feeX * Q64) \div liquidity ELSE 0
           growthY == IF liquidity > 0 THEN (feeY * Q64) \div liquidity ELSE 0
       IN /\ \A t \in tickBitmap' :
               /\ ticks'[t].feeGrowthOutside0X64 = feeGrowthGlobal0X64'
               /\ ticks'[t].feeGrowthOutside1X64 = feeGrowthGlobal1X64'
          /\ totalSwapFee0' = totalSwapFee0 + feeX
          /\ totalSwapFee1' = totalSwapFee1 + feeY
          /\ feeGrowthGlobal0X64' = feeGrowthGlobal0X64 + growthX
          /\ feeGrowthGlobal1X64' = feeGrowthGlobal1X64 + growthY
          /\ reserveA' = IF a[5] = <<>> THEN reserveA ELSE a[5][1]
          /\ reserveB' = IF a[6] = <<>> THEN reserveB ELSE a[6][1]
          /\ UNCHANGED <<sqrtPriceX64, tickCurrent, liquidity, tickBitmap>>
          /\ TickLiquidity(ticks') = TickLiquidity(ticks)]_vars

\* an overpaid flash repay on a pool with liquidity and ticks raised the fee
\* growth of token 1 and left it on every tick, whose token-0 slots hold 0
C26_Witness ==
  /\ IsFlashRepay(lastCall)
  /\ lastCall.args[4] > lastCall.args[2]
  /\ tickBitmap # {}
  /\ feeGrowthGlobal1X64 > 0
  /\ \A t \in tickBitmap : ticks[t].feeGrowthOutside1X64 = feeGrowthGlobal1X64
  /\ \A t \in tickBitmap : ticks[t].feeGrowthOutside0X64 = 0
  /\ reserveA = 5

\* ---------------------------------------------------------- validated swaps
IsValidatedSwap(call) == call.op = "applySwapWithValidation"

\* the pool fields, in the order of poolVars, that applySwapInternal leaves in r
PoolFieldsAfter(r) ==
  <<reserveA, reserveB, r.sqrtPriceX64, r.liquidity, r.tickCurrent, feeRatePpm,
    r.ticks, tickBitmap, r.g[1], r.g[2], r.totalSwapFee0, r.totalSwapFee1>>

\* a validated swap called with no expected value does what applySwap does
SameAsApplySwap(call) ==
  LET plain == applySwapInternal(call.args[1], call.args[2], calculateFees(call.args[1]))
  IN (call.args[3] = <<>> /\ call.args[4] = <<>> /\ call.args[5] = <<>>) =>
       /\ call.ret = plain.amountOut
       /\ poolVars' = PoolFieldsAfter(plain)

\* fee growth of the input token is driven by lpFee over the liquidity L of
\* the state the call starts in
GrowthDrivenBy(lpFee, zeroForOne) ==
  LET growth == IF lpFee > 0 /\ liquidity > 0 THEN (lpFee * Q64) \div liquidity ELSE 0
  IN /\ feeGrowthGlobal0X64' = feeGrowthGlobal0X64 + (IF zeroForOne THEN growth ELSE 0)
     /\ feeGrowthGlobal1X64' = feeGrowthGlobal1X64 + (IF zeroForOne THEN 0 ELSE growth)

\* price, tick, liquidity, tick data and the result are those of walking net
\* from the state the call starts in
WalkedNet(call, net) ==
  IF net <= 0
    THEN call.ret = 0 /\ UNCHANGED <<sqrtPriceX64, tickCurrent, liquidity, ticks>>
    ELSE LET w == executeCLMMSwap(liquidity, <<feeGrowthGlobal0X64', feeGrowthGlobal1X64'>>,
                                  net, call.args[2])
         IN /\ call.ret = w.amountOut
            /\ sqrtPriceX64' = w.sqrtPrice
            /\ tickCurrent' = w.tick
            /\ liquidity' = w.liquidity
            /\ ticks' = w.ticks

FeesSupplied(call) == call.args[4] # <<>> \/ call.args[5] # <<>>

\* C27: applySwapWithValidation called with no expected values returns the
\* same amountOut and leaves the same pool fields as applySwap on the same
\* state; when expectedFee and/or expectedProtocolFee are supplied they replace
\* the computed lpFee/protocolFee, so totalSwapFee of the input token grows by
\* their sum, fee growth is driven by the supplied lpFee, and the net input
\* walked is max(amountIn - (lpFee + protocolFee), 0).
C27_SuppliedFeesReplaceComputed ==
  [][IsValidatedSwap(lastCall') =>
       LET fees == SwapFees(lastCall')
           amountIn == lastCall'.args[1]
           zeroForOne == lastCall'.args[2]
       IN /\ SameAsApplySwap(lastCall')
          /\ FeesSupplied(lastCall') =>
               /\ FeeBooked(zeroForOne, fees.totalFee)
               /\ GrowthDrivenBy(fees.lpFee, zeroForOne)
               /\ WalkedNet(lastCall', Max(amountIn - fees.totalFee, 0))]_vars

\* C27 as amended: with no expected values the call returns the same amountOut
\* and leaves the same pool fields as applySwap on the same state.  With
\* amountIn <= 0 the call returns 0 and changes no pool field, whatever fees are
\* supplied.  With amountIn > 0 and expectedFee and/or expectedProtocolFee
\* supplied, they replace the computed lpFee/protocolFee: totalSwapFee of the
\* input token grows by their sum when the sum is positive and is unchanged
\* otherwise, fee growth is driven by the lpFee when it is positive, and the
\* net input walked is amountIn - (lpFee + protocolFee) when amountIn exceeds
\* the sum and 0 otherwise.
C27_SuppliedFeesReplaceComputedOnSwap ==
  [][IsValidatedSwap(lastCall') =>
       LET fees == SwapFees(lastCall')
           amountIn == lastCall'.args[1]
           zeroForOne == lastCall'.args[2]
       IN /\ SameAsApplySwap(lastCall')
          /\ amountIn <= 0 => (lastCall'.ret = 0 /\ UNCHANGED poolVars)
          /\ (amountIn > 0 /\ FeesSupplied(lastCall')) =>
               /\ FeeBooked(zeroForOne, Max(fees.totalFee, 0))
               /\ GrowthDrivenBy(fees.lpFee, zeroForOne)
               /\ WalkedNet(lastCall', IF amountIn > fees.totalFee
                                         THEN amountIn - fees.totalFee ELSE 0)]_vars

\* a validated swap with both fees supplied booked their sum on the input
\* token, raised its fee growth and moved the price
C27_Witness ==
  /\ IsValidatedSwap(lastCall)
  /\ lastCall.args[1] = 6 /\ lastCall.args[4] = <<2>> /\ lastCall.args[5] = <<1>>
  /\ calls = 2
  /\ totalSwapFee1 = 3
  /\ feeGrowthGlobal1X64 > 0
  /\ sqrtPriceX64 > tickToSqrtPrice(1)

\* ------------------------------------------------- validated swaps only
NextValidated ==
  \E v \in ValidationArgs :
    Call(MaxValidatedCalls) /\ ApplySwapWithValidation(v[1], v[2], v[3], v[4], v[5])

SpecValidated == Init /\ [][NextValidated]_vars

\* C28: after any sequence of applySwapWithValidation calls with arbitrary
\* arguments, totalSwaps equals the number of calls (a call with amountIn <= 0
\* counts too), totalSwaps = exactMatches + amountOutMismatches, and
\* feeMismatches, protocolFeeMismatches, totalFeeDifference and
\* totalProtocolFeeDifference are all still 0.
C28_ValidationCounters ==
  /\ validationStats.totalSwaps = calls
  /\ validationStats.totalSwaps =
       validationStats.exactMatches + validationStats.amountOutMismatches
  /\ validationStats.feeMismatches = 0
  /\ validationStats.protocolFeeMismatches = 0
  /\ validationStats.totalFeeDifference = 0
  /\ validationStats.totalProtocolFeeDifference = 0

\* calls with supplied fees that differ from the computed ones, one of them
\* with amountIn = 0, have produced both an exact match and a mismatch of
\* amountOut
C28_Witness ==
  /\ validationStats.totalSwaps >= 3
  /\ validationStats.exactMatches >= 1
  /\ validationStats.amountOutMismatches >= 1
  /\ IsValidatedSwap(lastCall)
  /\ lastCall.args[1] = 0
  /\ lastCall.args[4] # <<>>
  /\ lastCall.args[4][1] # calculateFees(lastCall.args[1]).lpFee

\* C29: in every state reachable from a newly constructed pool by the public
\* mutating operations (applyLiquidityDelta, applySwap,
\* applySwapWithValidation, applyRepayFlashSwap), every initialized tick
\* satisfies 0 <= feeGrowthOutside0X64 <= feeGrowthGlobal0X64 and
\* 0 <= feeGrowthOutside1X64 <= feeGrowthGlobal1X64.
C29_OutsideWithinGlobal ==
  \A t \in tickBitmap :
    /\ 0 <= ticks[t].feeGrowthOutside0X64
    /\ ticks[t].feeGrowthOutside0X64 <= feeGrowthGlobal0X64
    /\ 0 <= ticks[t].feeGrowthOutside1X64
    /\ ticks[t].feeGrowthOutside1X64 <= feeGrowthGlobal1X64

\* a tick keeps the positive fee growth it was crossed at while a later swap
\* has raised the global above it
C29_Witness ==
  /\ IsAnySwap(lastCall)
  /\ \E t \in tickBitmap :
       \/ /\ 0 < ticks[t].feeGrowthOutside0X64
          /\ ticks[t].feeGrowthOutside0X64 < feeGrowthGlobal0X64
       \/ /\ 0 < ticks[t].feeGrowthOutside1X64
          /\ ticks[t].feeGrowthOutside1X64 < feeGrowthGlobal1X64

\* ------------------------------------------ fee estimates after a flash repay
estimatePositionFees(tickLower, tickUpper, liquidityAmount) ==
  LET feeGrowthInside0 == calculateFeeGrowthInside(tickLower, tickUpper, 0)
      feeGrowthInside1 == calculateFeeGrowthInside(tickLower, tickUpper, 1)
  IN [fee0 |-> (liquidityAmount * feeGrowthInside0) \div Q64,
      fee1 |-> (liquidityAmount * feeGrowthInside1) \div Q64]

estimateCollectFee(tickLower, tickUpper, liquidityAmount) ==
  LET currentFees == estimatePositionFees(tickLower, tickUpper, liquidityAmount)
  IN [collectableFees |-> currentFees,
      totalFees |-> [fee0 |-> currentFees.fee0, fee1 |-> currentFees.fee1],
      feeGrowthInside |-> [fee0 |-> calculateFeeGrowthInside(tickLower, tickUpper, 0),
                           fee1 |-> calculateFeeGrowthInside(tickLower, tickUpper, 1)],
      estimatedValue |-> currentFees.fee0 + currentFees.fee1]

EstimatePositionFees(tickLower, tickUpper, liquidityAmount) ==
  /\ lastCall' = [op |-> "estimatePositionFees",
                  args |-> <<tickLower, tickUpper, liquidityAmount>>,
                  ret |-> estimatePositionFees(tickLower, tickUpper, liquidityAmount)]
  /\ UNCHANGED <<poolVars, validationStats, crossedAt, snapshotAt, ledger, ledgerClean,
                 swapped, baseLiquidity>>

EstimateCollectFee(tickLower, tickUpper, liquidityAmount) ==
  /\ lastCall' = [op |-> "estimateCollectFee",
                  args |-> <<tickLower, tickUpper, liquidityAmount>>,
                  ret |-> estimateCollectFee(tickLower, tickUpper, liquidityAmount)]
  /\ UNCHANGED <<poolVars, validationStats, crossedAt, snapshotAt, ledger, ledgerClean,
                 swapped, baseLiquidity>>

FlashSwapAmounts == {6}
PositionLiquidity == {8}

\* positions, swaps and flash repays; the fee queries are asked right after a
\* flash repay
NextFlashFees ==
  \/ \E r \in Ranges, d \in LiquidityDeltas :
       Call(MaxFlashCalls) /\ ApplyLiquidityDelta(r[1], r[2], d)
  \/ \E a \in FlashSwapAmounts, z \in BOOLEAN : Call(MaxFlashCalls) /\ ApplySwap(a, z)
  \/ \E f \in FlashArgs :
       Call(MaxFlashCalls) /\ ApplyRepayFlashSwap(f[1], f[2], f[3], f[4], f[5], f[6])
  \/ \E tL \in PositionTicks, tU \in PositionTicks, I \in {0, 1} :
       /\ IsFlashRepay(lastCall)
       /\ Call(MaxFlashCalls) /\ CalculateFeeGrowthInside(tL, tU, I)
  \/ \E tL \in PositionTicks, tU \in PositionTicks, L \in PositionLiquidity :
       /\ IsFlashRepay(lastCall)
       /\ Call(MaxFlashCalls) /\ EstimatePositionFees(tL, tU, L)
  \/ \E tL \in PositionTicks, tU \in PositionTicks, L \in PositionLiquidity :
       /\ IsFlashRepay(lastCall)
       /\ Call(MaxFlashCalls) /\ EstimateCollectFee(tL, tU, L)

SpecFlashFees == Init /\ [][NextFlashFees]_vars

NoFees == [fee0 |-> 0, fee1 |-> 0]

\* C30: immediately after any applyRepayFlashSwap call, for every pair of
\* ticks (tL, tU), both tokens and any tickCurrent, calculateFeeGrowthInside
\* returns 0, so estimatePositionFees and estimateCollectFee report zero fees
\* for every position regardless of the fees accrued before the repay.
C30_NoFeesAfterFlashRepay ==
  [][IsFlashRepay(lastCall) =>
       /\ lastCall'.op = "calculateFeeGrowthInside" => lastCall'.ret = 0
       /\ lastCall'.op = "estimatePositionFees" => lastCall'.ret = NoFees
       /\ lastCall'.op = "estimateCollectFee" =>
            /\ lastCall'.ret.collectableFees = NoFees
            /\ lastCall'.ret.totalFees = NoFees
            /\ lastCall'.ret.feeGrowthInside = NoFees
            /\ lastCall'.ret.estimatedValue = 0]_vars

\* after a position was opened, a swap crossed one of its ticks and a flash
\* repay followed, the fee estimate of the position is zero although the pool
\* has accrued fee growth
C30_Witness ==
  /\ calls = 4
  /\ lastCall.op = "estimatePositionFees"
  /\ lastCall.args[1] \in tickBitmap /\ lastCall.args[2] \in tickBitmap
  /\ lastCall.args[1] < lastCall.args[2]
  /\ lastCall.ret = NoFees
  /\ swapped
  /\ \E t \in tickBitmap : crossedAt[t] # <<>>
  /\ feeGrowthGlobal0X64 + feeGrowthGlobal1X64 > 0

\* --------------------------------------------------- per-tick fee queries
getFeesAtTick(tick) ==
  IF tick \notin DOMAIN ticks THEN [fee0 |-> 0, fee1 |-> 0]
  ELSE LET feeGrowthInside0X64 == calculateFeeGrowthInside(tick, tick, 0)
           feeGrowthInside1X64 == calculateFeeGrowthInside(tick, tick, 1)
       IN [fee0 |-> (ticks[tick].liquidityGross * feeGrowthInside0X64) \div Q64,
           fee1 |-> (ticks[tick].liquidityGross * feeGrowthInside1X64) \div Q64]

\* the ticks of S in ascending order
RECURSIVE sorted(_)
sorted(S) ==
  IF S = {} THEN <<>>
  ELSE LET least == CHOOSE t \in S : \A u \in S : t <= u
       IN <<least>> \o sorted(S \ {least})

\* the list getAllTicksWithFees returns, one entry per tick record
getAllTicksWithFees ==
  LET order == sorted(DOMAIN ticks)
  IN [i \in 1..Len(order) |->
        [tick |-> order[i], liquidity |-> ticks[order[i]].liquidityGross,
         fee0 |-> getFeesAtTick(order[i]).fee0,
         fee1 |-> getFeesAtTick(order[i]).fee1]]

GetFeesAtTick(tick) ==
  /\ lastCall' = [op |-> "getFeesAtTick", args |-> <<tick>>, ret |-> getFeesAtTick(tick)]
  /\ UNCHANGED <<poolVars, validationStats, crossedAt, snapshotAt, ledger, ledgerClean,
                 swapped, baseLiquidity>>

GetAllTicksWithFees ==
  /\ lastCall' = [op |-> "getAllTicksWithFees", args |-> <<>>,
                  ret |-> getAllTicksWithFees]
  /\ UNCHANGED <<poolVars, validationStats, crossedAt, snapshotAt, ledger, ledgerClean,
                 swapped, baseLiquidity>>

\* positions, swaps and flash repays build the tick data the queries read; the
\* query takes any tick, initialized or not
NextTickFees ==
  \/ \E r \in Ranges, d \in LiquidityDeltas :
       Call(MaxCalls) /\ ApplyLiquidityDelta(r[1], r[2], d)
  \/ \E a \in SwapAmounts, z \in BOOLEAN : Call(MaxCalls) /\ ApplySwap(a, z)
  \/ \E f \in FlashArgs :
       Call(MaxCalls) /\ ApplyRepayFlashSwap(f[1], f[2], f[3], f[4], f[5], f[6])
  \/ \E t \in (-MaxTick)..MaxTick : Call(MaxCalls) /\ GetFeesAtTick(t)
  \/ Call(MaxCalls) /\ GetAllTicksWithFees

SpecTickFees == Init /\ [][NextTickFees]_vars

\* C31: in every pool state and for every tick, initialized or not,
\* getFeesAtTick returns fee0 = 0 and fee1 = 0, and therefore every entry of
\* getAllTicksWithFees has fee0 = fee1 = 0.
C31_TickFeesAreZero ==
  /\ lastCall.op = "getFeesAtTick" => (lastCall.ret.fee0 = 0 /\ lastCall.ret.fee1 = 0)
  /\ lastCall.op = "getAllTicksWithFees" =>
       /\ Len(lastCall.ret) = Cardinality(tickBitmap)
       /\ \A i \in 1..Len(lastCall.ret) :
            /\ lastCall.ret[i].tick \in tickBitmap
            /\ lastCall.ret[i].fee0 = 0
            /\ lastCall.ret[i].fee1 = 0

\* the query was asked for the initialized tick the pool stands on, whose
\* liquidityGross is positive, while the global fee growth exceeds twice the
\* tick's outside growth
C31_Witness ==
  /\ lastCall.op = "getFeesAtTick"
  /\ lastCall.args[1] \in tickBitmap
  /\ lastCall.args[1] = tickCurrent
  /\ ticks[tickCurrent].liquidityGross > 0
  /\ \/ feeGrowthGlobal0X64 > 2 * ticks[tickCurrent].feeGrowthOutside0X64
     \/ feeGrowthGlobal1X64 > 2 * ticks[tickCurrent].feeGrowthOutside1X64
  /\ lastCall.ret = NoFees

====
